---- MODULE Spec2Model ----
(***************************************************************************)
(* Model of the timetable scheduler core of sss-schedule-api               *)
(* (src/service/ortools_solver.py, class ORToolsScheduler).                *)
(*                                                                         *)
(* One call of solve_scheduling is a pipeline                              *)
(*   grid -> validate -> variables + hard constraints -> pins -> solve     *)
(*        -> extract + audit + response                                    *)
(* whose position is pc.  Every step but the CP-SAT solve is a function of *)
(* the request; the solve picks one of the assignments the CP model        *)
(* admits (or times out).                                                  *)
(*                                                                         *)
(* An "HH:MM" string is the pair <<hh, mm>>; a time of day is its minute   *)
(* count 0..1439.  An optional value (Python None) is a sequence of length *)
(* 0 or 1.  Slot index k of the source is position k + 1 of a day's grid.  *)
(***************************************************************************)
EXTENDS Integers, Sequences, FiniteSets, TLC

VARIABLES
    request,              \* self.request
    respect_preferences,  \* self.respect_preferences
    pc,                   \* position inside solve_scheduling
    days,                 \* self.days
    slot_times,           \* self.slot_times: day -> sequence of <<start, end>> strings
    variables,            \* self.variables: the decision variables <<course_idx, day, slot, hall_id>>
    pinned,               \* variables fixed to 1 by model.Add(var == 1)
    solver_status,        \* result of self.solver.Solve(self.model)
    solution,             \* the variables whose solver value is 1
    response,             \* the SchedulingResponse returned
    model,                \* self.model: the constraints added so far, one group per call
    calls                 \* the calls of solve_scheduling made on this scheduler

vars == <<request, respect_preferences, pc, days, slot_times, variables,
          pinned, solver_status, solution, response, model, calls>>

-----------------------------------------------------------------------------
(* Bounds and program constants *)

MaxCredit == 2

MaxCalls == 2

DefaultPeriod == 30

QuarterHour == 15

MinutesPerDay == 1440

PreferenceWeight == 10

-----------------------------------------------------------------------------
(* Strings, times *)

T(h, m) == <<h, m>>

\* str.lower() on the day names the requests use
lower(s) ==
    CASE s = "Monday" -> "monday"
      [] s = "Tuesday" -> "tuesday"
      [] OTHER -> s

\* str.capitalize() on a lowercase day name
capitalize(s) ==
    CASE s = "monday" -> "Monday"
      [] s = "tuesday" -> "Tuesday"
      [] OTHER -> s

valid_days == {"monday", "tuesday", "wednesday", "thursday", "friday", "saturday", "sunday"}

\* datetime.strptime(s, '%H:%M') raises ValueError on these
is_malformed(s) == ~(s[1] \in 0..23 /\ s[2] \in 0..59)

parse_time(s) == s[1] * 60 + s[2]

time_to_str(t) == <<t \div 60, t % 60>>

\* datetime arithmetic followed by .time(): the date part is dropped
add_minutes(t, minutes) == (t + minutes) % MinutesPerDay

align_time_to_quarter_hour(t) ==
    LET remainder == t % QuarterHour
    IN  IF remainder = 0 THEN t
        ELSE add_minutes(0, t + (QuarterHour - remainder))

times_overlap(start1, end1, start2, end2) ==
    LET e1 == IF end1 < start1 THEN add_minutes(end1, 24 * 60) ELSE end1
        e2 == IF end2 < start2 THEN add_minutes(end2, 24 * 60) ELSE end2
    IN  start1 < e2 /\ start2 < e1

parse_bool(value) == value

\* comparison of two zero-padded "HH:MM" strings
str_less(a, b) == a[1] < b[1] \/ (a[1] = b[1] /\ a[2] < b[2])

RECURSIVE FlattenSeq(_)
FlattenSeq(ss) == IF ss = <<>> THEN <<>> ELSE Head(ss) \o FlattenSeq(Tail(ss))

Range(s) == {s[i] : i \in DOMAIN s}

-----------------------------------------------------------------------------
(* Time grid *)

parse_days(req) == [i \in DOMAIN req.operational_period.days |->
                        lower(req.operational_period.days[i])]

\* _parse_operational_periods: the last per-day override of an active day wins,
\* every other active day takes the default hours (whatever `daily` says)
operational_hours(req, day) ==
    LET op == req.operational_period
        ov == {i \in DOMAIN op.constrains : lower(op.constrains[i].day) = day}
        last == CHOOSE i \in ov : \A j \in ov : j <= i
    IN  IF ov # {} THEN <<op.constrains[last].start_time, op.constrains[last].end_time>>
        ELSE <<op.start_time, op.end_time>>

get_period_duration(req, day) ==
    IF req.periods = <<>> THEN DefaultPeriod
    ELSE LET cfg == req.periods[1]
             fixed == IF cfg.constrains = <<>> THEN <<>>
                      ELSE cfg.constrains[1].daysFixedPeriods
             hit == {i \in DOMAIN fixed : lower(fixed[i].day) = day}
             first == CHOOSE i \in hit : \A j \in hit : i <= j
         IN  IF hit # {} THEN fixed[first].period
             ELSE IF parse_bool(cfg.daily) THEN cfg.period
             ELSE DefaultPeriod

\* the while loop of _build_time_slots from current_time on
RECURSIVE slot_loop(_, _, _)
slot_loop(current_time, end_time, period_duration) ==
    IF ~(current_time < end_time) THEN <<>>
    ELSE LET next_time == add_minutes(current_time, period_duration)
         IN  IF next_time > end_time THEN <<>>
             ELSE <<<<time_to_str(current_time), time_to_str(next_time)>>>>
                  \o slot_loop(next_time, end_time, period_duration)

day_time_slots(req, day) ==
    LET period_duration == get_period_duration(req, day)
        hours == operational_hours(req, day)
        start_time == align_time_to_quarter_hour(parse_time(hours[1]))
        end_time == parse_time(hours[2])
    IN  IF start_time >= end_time THEN <<>>
        ELSE slot_loop(start_time, end_time, period_duration)

\* strptime raises for this day inside _build_time_slots
day_raises(req, day) ==
    \/ is_malformed(operational_hours(req, day)[1])
    \/ is_malformed(operational_hours(req, day)[2])

\* the while loop comes back to a current_time it has already had: it never ends
RECURSIVE slot_loop_diverges(_, _, _, _)
slot_loop_diverges(current_time, end_time, period_duration, seen) ==
    IF ~(current_time < end_time) THEN FALSE
    ELSE LET next_time == add_minutes(current_time, period_duration)
         IN  IF next_time > end_time THEN FALSE
             ELSE IF next_time \in seen \cup {current_time} THEN TRUE
             ELSE slot_loop_diverges(next_time, end_time, period_duration,
                                     seen \cup {current_time})

day_diverges(req, day) ==
    /\ ~day_raises(req, day)
    /\ LET hours == operational_hours(req, day)
           start_time == align_time_to_quarter_hour(parse_time(hours[1]))
           end_time == parse_time(hours[2])
       IN  /\ start_time < end_time
           /\ slot_loop_diverges(start_time, end_time, get_period_duration(req, day), {})

\* the days are built in order: the first day that raises or diverges decides
\* strptime raises inside _build_time_slots (before validation runs)
grid_raises(req) ==
    LET day_list == parse_days(req)
    IN  \E i \in DOMAIN day_list :
            /\ day_raises(req, day_list[i])
            /\ \A j \in 1..(i - 1) : ~day_diverges(req, day_list[j])

\* _build_time_slots never returns
grid_diverges(req) ==
    LET day_list == parse_days(req)
    IN  \E i \in DOMAIN day_list :
            /\ day_diverges(req, day_list[i])
            /\ \A j \in 1..(i - 1) : ~day_raises(req, day_list[j])

build_time_slots(req) ==
    [d \in Range(parse_days(req)) |-> day_time_slots(req, d)]

\* the grid of an earlier call is kept where it has one
store_time_slots_keep(stored, req) ==
    [d \in DOMAIN stored \cup Range(parse_days(req)) |->
        IF d \in DOMAIN stored THEN stored[d] ELSE build_time_slots(req)[d]]

\* self.slot_times[day] = slot_times, for each active day: what an earlier
\* call stored for that day is replaced
store_time_slots(stored, req) ==
    [d \in DOMAIN stored \cup Range(parse_days(req)) |->
        IF d \in Range(parse_days(req)) THEN build_time_slots(req)[d] ELSE stored[d]]

-----------------------------------------------------------------------------
(* Request validation *)

\* the errors one list comprehension-style loop appends: tag(i) for every item
errors_of(items, tags(_)) == FlattenSeq([i \in DOMAIN items |-> tags(items[i])])

\* try: parse both, compare; except ValueError: one format error
interval_errors(start_str, end_str, order_tag, format_tag) ==
    IF is_malformed(start_str) \/ is_malformed(end_str) THEN <<format_tag>>
    ELSE IF parse_time(start_str) >= parse_time(end_str) THEN <<order_tag>>
    ELSE <<>>

validate_day_list(day_list) ==
    LET tag(d) == IF lower(d) \notin valid_days THEN <<"INVALID_DAY">> ELSE <<>>
    IN  errors_of(day_list, tag)

validate_fixed_breaks(breaks) ==
    LET tag(b) == (IF lower(b.day) \notin valid_days THEN <<"INVALID_DAY">> ELSE <<>>)
                  \o interval_errors(b.start_time, b.end_time,
                                     "FIXED_BREAK_ORDER", "FIXED_BREAK_FORMAT")
    IN  errors_of(breaks, tag)

validate_break_period(req) ==
    LET bc == req.break_period
    IN  interval_errors(bc.start_time, bc.end_time, "BREAK_ORDER", "BREAK_FORMAT")
        \o validate_day_list(bc.no_break_exceptions)
        \o validate_fixed_breaks(bc.day_exceptions)
        \o (IF bc.constrains = <<>> THEN <<>>
            ELSE validate_day_list(bc.constrains[1].daysException)
                 \o validate_fixed_breaks(bc.constrains[1].daysFixedBreaks))

validate_periods(req) ==
    LET cfg == req.periods[1]
        tag(fp) == (IF lower(fp.day) \notin valid_days THEN <<"INVALID_DAY">> ELSE <<>>)
                   \o (IF fp.period <= 0 THEN <<"PERIOD_NOT_POSITIVE">> ELSE <<>>)
    IN  (IF cfg.period <= 0 THEN <<"PERIOD_NOT_POSITIVE">> ELSE <<>>)
        \o (IF cfg.constrains = <<>> THEN <<>>
            ELSE validate_day_list(cfg.constrains[1].daysException)
                 \o errors_of(cfg.constrains[1].daysFixedPeriods, tag))

validate_teacher_busy_periods(req) ==
    LET tag(bp) == (IF lower(bp.day) \notin valid_days THEN <<"INVALID_DAY">> ELSE <<>>)
                   \o interval_errors(bp.start_time, bp.end_time,
                                      "BUSY_ORDER", "BUSY_FORMAT")
    IN  errors_of(req.teacher_busy_period, tag)

validate_teacher_preferred_periods(req) ==
    LET tag(pp) == (IF lower(pp.day) \notin valid_days THEN <<"INVALID_DAY">> ELSE <<>>)
                   \o interval_errors(pp.start_time, pp.end_time,
                                      "PREFERRED_ORDER", "PREFERRED_FORMAT")
    IN  errors_of(req.teacher_prefered_teaching_period, tag)

validate_input(req) ==
    LET teacher_ids == {req.teachers[i].teacher_id : i \in DOMAIN req.teachers}
        unknown(c) == IF c.teacher_id \notin teacher_ids
                      THEN <<"UNKNOWN_TEACHER">> ELSE <<>>
        hall_type(h) == IF h.hall_type \notin {"lecture", "lab"}
                        THEN <<"INVALID_HALL_TYPE">> ELSE <<>>
        course_type(c) == IF c.course_type \notin {"theory", "practical"}
                          THEN <<"INVALID_COURSE_TYPE">> ELSE <<>>
    IN  (IF req.teachers = <<>> THEN <<"NO_TEACHERS">> ELSE <<>>)
        \o (IF req.teacher_courses = <<>> THEN <<"NO_COURSES">> ELSE <<>>)
        \o (IF req.halls = <<>> THEN <<"NO_HALLS">> ELSE <<>>)
        \o errors_of(req.teacher_courses, unknown)
        \o errors_of(req.halls, hall_type)
        \o errors_of(req.teacher_courses, course_type)
        \o validate_break_period(req)
        \o (IF req.periods # <<>> THEN validate_periods(req) ELSE <<>>)
        \o validate_teacher_busy_periods(req)
        \o validate_teacher_preferred_periods(req)

-----------------------------------------------------------------------------
(* Feasibility pre-filter *)

calculate_sessions_per_week(course) ==
    IF course.course_credit > 1 THEN course.course_credit ELSE 1

\* every hall suits every course
get_suitable_halls_any_type(req, course) == req.halls

\* indices (into request.halls, in request order) of the halls a course may use
get_suitable_halls(req, course) ==
    LET match(h) == \/ course.course_type = "practical" /\ h.hall_type = "lab"
                    \/ course.course_type = "theory" /\ h.hall_type = "lecture"
        suitable == SelectSeq(req.halls, match)
    IN  IF suitable # <<>> THEN suitable ELSE req.halls

get_no_break_days(req) ==
    LET bc == req.break_period
    IN  IF bc.no_break_exceptions # <<>>
        THEN {lower(d) : d \in Range(bc.no_break_exceptions)}
        ELSE IF bc.constrains # <<>>
        THEN {lower(d) : d \in Range(bc.constrains[1].daysException)}
        ELSE {}

\* <<>> when the day has no override, else <<(start, end)>>
get_break_day_override(req, day) ==
    LET bc == req.break_period
        overrides == IF bc.day_exceptions # <<>> THEN bc.day_exceptions
                     ELSE IF bc.constrains # <<>> THEN bc.constrains[1].daysFixedBreaks
                     ELSE <<>>
        hit == {i \in DOMAIN overrides : lower(overrides[i].day) = lower(day)}
        first == CHOOSE i \in hit : \A j \in hit : i <= j
    IN  IF hit = {} THEN <<>>
        ELSE <<<<overrides[first].start_time, overrides[first].end_time>>>>

\* only the default break is read: no-break days and day overrides are not
is_slot_in_break_period_default_only(req, day, slot_start, slot_end) ==
    LET bc == req.break_period
    IN  IF parse_bool(bc.daily)
        THEN times_overlap(slot_start, slot_end,
                           parse_time(bc.start_time), parse_time(bc.end_time))
        ELSE FALSE

is_slot_in_break_period(req, day, slot_start, slot_end) ==
    LET bc == req.break_period
        override == get_break_day_override(req, day)
    IN  IF lower(day) \in get_no_break_days(req) THEN FALSE
        ELSE IF override # <<>>
        THEN times_overlap(slot_start, slot_end,
                           parse_time(override[1][1]), parse_time(override[1][2]))
        ELSE IF parse_bool(bc.daily)
        THEN times_overlap(slot_start, slot_end,
                           parse_time(bc.start_time), parse_time(bc.end_time))
        ELSE FALSE

\* a slot that merely overlaps a preferred window is accepted
is_slot_in_teacher_preference_overlap(req, course, day, slot_start, slot_end) ==
    LET prefs == req.teacher_prefered_teaching_period
        teacher_prefs == {i \in DOMAIN prefs :
                            /\ prefs[i].teacher_id = course.teacher_id
                            /\ lower(prefs[i].day) = day}
    IN  IF prefs = <<>> THEN TRUE
        ELSE IF teacher_prefs # {}
        THEN \E i \in teacher_prefs :
                times_overlap(slot_start, slot_end,
                              parse_time(prefs[i].start_time),
                              parse_time(prefs[i].end_time))
        ELSE TRUE

is_slot_in_teacher_preference(req, course, day, slot_start, slot_end) ==
    LET prefs == req.teacher_prefered_teaching_period
        teacher_prefs == {i \in DOMAIN prefs :
                            /\ prefs[i].teacher_id = course.teacher_id
                            /\ lower(prefs[i].day) = day}
    IN  IF prefs = <<>> THEN TRUE
        ELSE IF teacher_prefs # {}
        THEN \E i \in teacher_prefs :
                /\ slot_start >= parse_time(prefs[i].start_time)
                /\ slot_end <= parse_time(prefs[i].end_time)
        ELSE TRUE

\* the day of a busy period is compared without lower-casing it
teacher_is_busy_case_sensitive(req, course, day, slot_start, slot_end) ==
    \E i \in DOMAIN req.teacher_busy_period :
        LET bp == req.teacher_busy_period[i]
        IN  /\ bp.teacher_id = course.teacher_id
            /\ bp.day = day
            /\ times_overlap(slot_start, slot_end,
                             parse_time(bp.start_time), parse_time(bp.end_time))

teacher_is_busy(req, course, day, slot_start, slot_end) ==
    \E i \in DOMAIN req.teacher_busy_period :
        LET bp == req.teacher_busy_period[i]
        IN  /\ bp.teacher_id = course.teacher_id
            /\ lower(bp.day) = day
            /\ times_overlap(slot_start, slot_end,
                             parse_time(bp.start_time), parse_time(bp.end_time))

\* the day field of a hall busy period is not read
hall_is_busy(req, hall, day, slot_start, slot_end) ==
    \E i \in DOMAIN req.hall_busy_periods :
        LET bp == req.hall_busy_periods[i]
        IN  /\ bp.hall_id = hall.hall_id
            /\ times_overlap(slot_start, slot_end,
                             parse_time(bp.start_time), parse_time(bp.end_time))

\* the preferred windows are applied whatever the mode
is_slot_feasible_always_preferences(req, respect, grid, course, day, slot, hall) ==
    IF day \notin DOMAIN grid \/ slot \notin DOMAIN grid[day] THEN FALSE
    ELSE LET slot_start == parse_time(grid[day][slot][1])
             slot_end == parse_time(grid[day][slot][2])
         IN  /\ ~teacher_is_busy(req, course, day, slot_start, slot_end)
             /\ ~hall_is_busy(req, hall, day, slot_start, slot_end)
             /\ ~is_slot_in_break_period(req, day, slot_start, slot_end)
             /\ is_slot_in_teacher_preference(req, course, day, slot_start, slot_end)

is_slot_feasible(req, respect, grid, course, day, slot, hall) ==
    IF day \notin DOMAIN grid \/ slot \notin DOMAIN grid[day] THEN FALSE
    ELSE LET slot_start == parse_time(grid[day][slot][1])
             slot_end == parse_time(grid[day][slot][2])
         IN  /\ ~teacher_is_busy(req, course, day, slot_start, slot_end)
             /\ ~hall_is_busy(req, hall, day, slot_start, slot_end)
             /\ ~is_slot_in_break_period(req, day, slot_start, slot_end)
             /\ (respect =>
                   is_slot_in_teacher_preference(req, course, day, slot_start, slot_end))

\* the hall loop of _is_slot_feasible reaches a busy period of the hall whose
\* times do not parse before one that overlaps the slot sends it back
hall_busy_raises(req, hall, slot_start, slot_end) ==
    LET busy == req.hall_busy_periods
        mine == {i \in DOMAIN busy : busy[i].hall_id = hall.hall_id}
        malformed(i) == is_malformed(busy[i].start_time) \/ is_malformed(busy[i].end_time)
    IN  \E i \in mine :
            /\ malformed(i)
            /\ \A j \in mine :
                j < i => /\ ~malformed(j)
                         /\ ~times_overlap(slot_start, slot_end,
                                           parse_time(busy[j].start_time),
                                           parse_time(busy[j].end_time))

\* strptime raises inside _create_variables (hall busy periods are not validated)
create_variables_raises(req, respect, grid) ==
    \E ci \in DOMAIN req.teacher_courses : \E d \in DOMAIN grid : \E k \in DOMAIN grid[d] :
        \E h \in Range(get_suitable_halls(req, req.teacher_courses[ci])) :
            LET slot_start == parse_time(grid[d][k][1])
                slot_end == parse_time(grid[d][k][2])
            IN  /\ ~teacher_is_busy(req, req.teacher_courses[ci], d, slot_start, slot_end)
                /\ hall_busy_raises(req, h, slot_start, slot_end)

\* the keys of self.variables[course_idx]['assignment'][day][slot]
course_day_variables(req, respect, grid, ci, d) ==
    LET course == req.teacher_courses[ci]
        cells == {p \in (DOMAIN grid[d]) \X Range(get_suitable_halls(req, course)) :
                    is_slot_feasible(req, respect, grid, course, d, p[1], p[2])}
    IN  {<<ci, d, p[1], p[2].hall_id>> : p \in cells}

create_variables(req, respect, grid) ==
    UNION {course_day_variables(req, respect, grid, ci, d) :
             ci \in DOMAIN req.teacher_courses, d \in DOMAIN grid}

-----------------------------------------------------------------------------
(* Hard constraints of the CP model, as predicates on an assignment `sol`     *)
(* (the set of variables valued 1)                                            *)

course_variables(V, ci) == {v \in V : v[1] = ci}

\* 1. sum(all_assignments) == sessions_needed, added only `if all_assignments`
session_count_constraint(req, V, sol) ==
    \A ci \in DOMAIN req.teacher_courses :
        course_variables(V, ci) # {} =>
            Cardinality(course_variables(sol, ci))
                = calculate_sessions_per_week(req.teacher_courses[ci])

build_teacher_course_map(req, teacher_id) ==
    {ci \in DOMAIN req.teacher_courses : req.teacher_courses[ci].teacher_id = teacher_id}

\* the teacher constraint is left out of the CP model
teacher_constraint_dropped(req, V, sol) == TRUE

\* 2. per teacher, day and slot: sum(slot_assignments) <= 1, that is, no two
\*    variables valued 1 share the teacher, the day and the slot
teacher_constraint(req, V, sol) ==
    \A v \in sol : \A w \in sol :
        (/\ v # w
         /\ v[2] = w[2] /\ v[3] = w[3]
         /\ w[1] \in build_teacher_course_map(req, req.teacher_courses[v[1]].teacher_id))
        => FALSE

\* the hall constraint is left out of the CP model
hall_constraint_dropped(req, V, sol) == TRUE

\* 3. per day, slot and hall: sum(hall_assignments) <= 1, that is, no two
\*    variables valued 1 share the day, the slot and the hall
hall_constraint(req, V, sol) ==
    \A v \in sol : \A w \in sol :
        (v # w /\ v[2] = w[2] /\ v[3] = w[3] /\ v[4] = w[4]) => FALSE

add_hard_constraints(req, V, sol) ==
    /\ session_count_constraint(req, V, sol)
    /\ teacher_constraint(req, V, sol)
    /\ hall_constraint(req, V, sol)

-----------------------------------------------------------------------------
(* Required joint periods *)

\* <<>> for None, else <<slot>>
find_slot_index(grid, day, start_time_str, end_time_str) ==
    IF lower(day) \notin DOMAIN grid THEN <<>>
    ELSE LET hit == {k \in DOMAIN grid[lower(day)] :
                        /\ grid[lower(day)][k][1] = start_time_str
                        /\ grid[lower(day)][k][2] = end_time_str}
         IN  IF hit = {} THEN <<>> ELSE <<CHOOSE k \in hit : \A j \in hit : k <= j>>

\* hall ids of variables[course_idx]['assignment'][day][slot], in insertion order
halls_here(req, V, ci, day, slot) ==
    LET suitable == get_suitable_halls(req, req.teacher_courses[ci])
        present(h) == <<ci, day, slot, h.hall_id>> \in V
    IN  SelectSeq(suitable, present)

\* a cell left without a hall is passed over in silence
pin_period_skips_unavailable(req, grid, V, ci, period) ==
    LET day == lower(period.day)
        slot == find_slot_index(grid, day, period.start_time, period.end_time)
    IN  IF slot = <<>> THEN [failure |-> <<"SLOT_NOT_FOUND">>, pin |-> {}]
        ELSE IF halls_here(req, V, ci, day, slot[1]) = <<>>
        THEN [failure |-> <<>>, pin |-> {}]
        ELSE [failure |-> <<>>,
              pin |-> {<<ci, day, slot[1], halls_here(req, V, ci, day, slot[1])[1].hall_id>>}]

\* what one period of one item contributes: a failure blocker type or a pinned variable
pin_period(req, grid, V, ci, period) ==
    LET day == lower(period.day)
        slot == find_slot_index(grid, day, period.start_time, period.end_time)
    IN  IF slot = <<>> THEN [failure |-> <<"SLOT_NOT_FOUND">>, pin |-> {}]
        ELSE IF halls_here(req, V, ci, day, slot[1]) = <<>>
        THEN [failure |-> <<"HALL_UNAVAILABLE">>, pin |-> {}]
        ELSE [failure |-> <<>>,
              pin |-> {<<ci, day, slot[1], halls_here(req, V, ci, day, slot[1])[1].hall_id>>}]

pin_item(req, grid, V, item) ==
    LET hit == {ci \in DOMAIN req.teacher_courses :
                    /\ req.teacher_courses[ci].course_id = item.course_id
                    /\ req.teacher_courses[ci].teacher_id = item.teacher_id}
        ci == CHOOSE i \in hit : \A j \in hit : i <= j
        per == [k \in DOMAIN item.periods |-> pin_period(req, grid, V, ci, item.periods[k])]
    IN  IF hit = {} THEN [failure |-> <<"TEACHER_COURSE_MISMATCH">>, pin |-> {}]
        ELSE [failure |-> FlattenSeq([k \in DOMAIN per |-> per[k].failure]),
              pin |-> UNION {per[k].pin : k \in DOMAIN per}]

\* the failures are found but no variable is fixed to 1
add_required_joint_period_constraints_unpinned(req, grid, V) ==
    LET items == req.required_joint_course_periods
        per == [k \in DOMAIN items |-> pin_item(req, grid, V, items[k])]
    IN  [failures |-> FlattenSeq([k \in DOMAIN per |-> per[k].failure]),
         pin |-> {}]

\* failures: the blocker type of each ConstraintFailure returned; pin: the variables fixed to 1
add_required_joint_period_constraints(req, grid, V) ==
    LET items == req.required_joint_course_periods
        per == [k \in DOMAIN items |-> pin_item(req, grid, V, items[k])]
    IN  [failures |-> FlattenSeq([k \in DOMAIN per |-> per[k].failure]),
         pin |-> UNION {per[k].pin : k \in DOMAIN per}]

-----------------------------------------------------------------------------
(* Objective and solver *)

RECURSIVE SumSeq(_)
SumSeq(ns) == IF ns = <<>> THEN 0 ELSE Head(ns) + SumSeq(Tail(ns))

\* the value of sum(objective_terms) under sol; 0 when no objective is set
objective_value(req, respect, grid, sol) ==
    LET prefs == req.teacher_prefered_teaching_period
        rewarded(pref, v) ==
            /\ req.teacher_courses[v[1]].teacher_id = pref.teacher_id
            /\ v[2] = lower(pref.day)
            /\ parse_time(pref.start_time) <= parse_time(grid[v[2]][v[3]][1])
            /\ parse_time(grid[v[2]][v[3]][1]) < parse_time(pref.end_time)
    IN  IF ~respect THEN 0
        ELSE SumSeq([i \in DOMAIN prefs |->
                PreferenceWeight * Cardinality({v \in sol : rewarded(prefs[i], v)})])

k_subsets(S, k) == {A \in SUBSET S : Cardinality(A) = k}

\* assignments meeting the session counts of courses 1..n
RECURSIVE session_assignments(_, _, _)
session_assignments(req, V, n) ==
    IF n = 0 THEN {{}}
    ELSE LET Vn == course_variables(V, n)
             mine == IF Vn = {} THEN {{}}
                     ELSE k_subsets(Vn, calculate_sessions_per_week(req.teacher_courses[n]))
         IN  {A \cup B : A \in session_assignments(req, V, n - 1), B \in mine}

\* the assignments the CP model admits
feasible_assignments(req, V, P) ==
    {sol \in session_assignments(req, V, Len(req.teacher_courses)) :
        /\ add_hard_constraints(req, V, sol)
        /\ P \subseteq sol}

\* what one call adds to self.model: its variables, hard constraints and pins
ConstraintGroup(req, V, P) == [request |-> req, variables |-> V, pinned |-> P]

satisfiable(group) ==
    feasible_assignments(group.request, group.variables, group.pinned) # {}

\* the values the solver may give the variables of the last group: self.model
\* is never replaced, so the groups of earlier calls have to be met as well
model_assignments(groups) ==
    LET current == groups[Len(groups)]
    IN  IF \A k \in 1..(Len(groups) - 1) : satisfiable(groups[k])
        THEN feasible_assignments(current.request, current.variables, current.pinned)
        ELSE {}

-----------------------------------------------------------------------------
(* Solution extraction *)

NoResponse == [status |-> "NONE"]

teaching_slot(req, grid, day, slot, ci, hall) ==
    [day |-> capitalize(day),
     start_time |-> grid[day][slot][1],
     end_time |-> grid[day][slot][2],
     break |-> FALSE,
     teacher_id |-> req.teacher_courses[ci].teacher_id,
     course_id |-> req.teacher_courses[ci].course_id,
     hall_id |-> hall.hall_id]

break_slot(day, start_str, end_str) ==
    [day |-> capitalize(day), start_time |-> start_str, end_time |-> end_str,
     break |-> TRUE, teacher_id |-> "", course_id |-> "", hall_id |-> ""]

\* a fixed break is rendered even on a no-break day
get_break_slots_override_first(req, day) ==
    LET bc == req.break_period
        override == get_break_day_override(req, day)
    IN  IF override # <<>> THEN <<break_slot(day, override[1][1], override[1][2])>>
        ELSE IF lower(day) \in get_no_break_days(req) THEN <<>>
        ELSE IF parse_bool(bc.daily) THEN <<break_slot(day, bc.start_time, bc.end_time)>>
        ELSE <<>>

get_break_slots(req, day) ==
    LET bc == req.break_period
        override == get_break_day_override(req, day)
    IN  IF lower(day) \in get_no_break_days(req) THEN <<>>
        ELSE IF override # <<>> THEN <<break_slot(day, override[1][1], override[1][2])>>
        ELSE IF parse_bool(bc.daily) THEN <<break_slot(day, bc.start_time, bc.end_time)>>
        ELSE <<>>

\* list.sort(key=start_time): a stable sort on the "HH:MM" strings
RECURSIVE insert_sorted(_, _)
insert_sorted(x, sorted) ==
    IF sorted = <<>> THEN <<x>>
    ELSE IF str_less(x.start_time, Head(sorted).start_time) THEN <<x>> \o sorted
    ELSE <<Head(sorted)>> \o insert_sorted(x, Tail(sorted))

RECURSIVE sort_by_start(_)
sort_by_start(slots) ==
    IF slots = <<>> THEN <<>>
    ELSE insert_sorted(slots[Len(slots)], sort_by_start(SubSeq(slots, 1, Len(slots) - 1)))

\* the scheduled slots of a day: by slot index, then course index, then hall
scheduled_slots(req, grid, sol, day) ==
    LET known_teacher(ci) ==
            \E i \in DOMAIN req.teachers :
                req.teachers[i].teacher_id = req.teacher_courses[ci].teacher_id
        at(slot, ci, hi) ==
            IF <<ci, day, slot, req.halls[hi].hall_id>> \in sol /\ known_teacher(ci)
            THEN <<teaching_slot(req, grid, day, slot, ci, req.halls[hi])>>
            ELSE <<>>
    IN  FlattenSeq([slot \in DOMAIN grid[day] |->
            FlattenSeq([ci \in DOMAIN req.teacher_courses |->
                FlattenSeq([hi \in DOMAIN req.halls |-> at(slot, ci, hi)])])])

\* a day without classes is rendered too, with its break slot
day_schedule_unfiltered(req, grid, sol, day) ==
    <<[day |-> capitalize(day),
       slots |-> sort_by_start(scheduled_slots(req, grid, sol, day)
                                   \o get_break_slots(req, day))]>>

day_schedule(req, grid, sol, day) ==
    LET day_slots == scheduled_slots(req, grid, sol, day)
    IN  IF Len(day_slots) = 0 THEN <<>>
        ELSE <<[day |-> capitalize(day),
                slots |-> sort_by_start(day_slots \o get_break_slots(req, day))]>>

extract_timetable(req, day_list, grid, sol) ==
    FlattenSeq([i \in DOMAIN day_list |-> day_schedule(req, grid, sol, day_list[i])])

-----------------------------------------------------------------------------
(* Soft-constraint audit *)

\* _slot_duration_hours, in minutes
slot_duration(start_str, end_str) ==
    LET a == parse_time(start_str)
        b == parse_time(end_str)
    IN  IF b <= a THEN b + MinutesPerDay - a ELSE b - a

teaching_slots_from_timetable(timetable) ==
    FlattenSeq([i \in DOMAIN timetable |->
        SelectSeq(timetable[i].slots, LAMBDA s : ~s.break)])

\* the distinct values of a sequence, in order of first occurrence (dict key order)
RECURSIVE keys_in_order(_)
keys_in_order(xs) ==
    IF xs = <<>> THEN <<>>
    ELSE LET rest == keys_in_order(SubSeq(xs, 1, Len(xs) - 1))
             x == xs[Len(xs)]
         IN  IF x \in Range(rest) THEN rest ELSE rest \o <<x>>

\* the value of a soft limit field: a JSON number, or an object that carries a
\* default (<<>> when the key is left out) and a list of exceptions
Scalar(n) == [kind |-> "number", value |-> n, default |-> <<>>, exceptions |-> <<>>]

LimitObject(default, exceptions) ==
    [kind |-> "object", value |-> 0, default |-> default, exceptions |-> exceptions]

\* bool(value) of an optional soft limit field: None and the number 0 are falsy
truthy(field_value) ==
    /\ field_value # <<>>
    /\ ~(field_value[1].kind = "number" /\ field_value[1].value = 0)

\* a or b
either(a, b) == IF truthy(a) THEN a ELSE b

\* dict.get(key, default) on a dict filled entry by entry: the last entry of a key wins
lookup(entries, key_field, value_field, key, default) ==
    LET hit == {i \in DOMAIN entries : entries[i][key_field] = key}
        last == CHOOSE i \in hit : \A j \in hit : j <= i
    IN  IF hit = {} THEN default ELSE entries[last][value_field]

\* hours are held in minutes: a limit of 0.5 is 30
parse_max_hours_limit(field_value) ==
    IF field_value = <<>> THEN [default |-> <<>>, exceptions |-> <<>>]
    ELSE IF field_value[1].kind = "number"
    THEN [default |-> <<field_value[1].value>>, exceptions |-> <<>>]
    ELSE [default |-> field_value[1].default, exceptions |-> field_value[1].exceptions]

\* round(hours, 2) of a whole number of minutes, in hundredths of an hour
\* (minutes / 60 is never half way between two hundredths)
round_hours(minutes) == (10 * minutes + 3) \div 6

\* teacher_max_daily_hours
check_teacher_max_daily_hours(req, timetable) ==
    LET parsed == parse_max_hours_limit(req.soft_constrains.teacher_max_daily_hours)
        teaching == teaching_slots_from_timetable(timetable)
        tids == keys_in_order([i \in DOMAIN teaching |-> teaching[i].teacher_id])
        limit(tid) == lookup(parsed.exceptions, "teacher_id", "max_hours",
                             tid, parsed.default[1])
        mine(tid, ds) == SelectSeq(ds.slots, LAMBDA s : ~s.break /\ s.teacher_id = tid)
        total(tid, ds) ==
            SumSeq([i \in DOMAIN mine(tid, ds) |->
                slot_duration(mine(tid, ds)[i].start_time, mine(tid, ds)[i].end_time)])
        blocker(tid, ds) ==
            IF mine(tid, ds) # <<>> /\ total(tid, ds) > limit(tid)
            THEN <<[type |-> "TEACHER_MAX_DAILY_HOURS_EXCEEDED", entity |-> tid,
                    day |-> ds.day, max_allowed_hours |-> limit(tid),
                    actual_hours |-> round_hours(total(tid, ds)),
                    excess |-> round_hours(total(tid, ds) - limit(tid))]>>
            ELSE <<>>
        daily_blockers ==
            FlattenSeq([t \in DOMAIN tids |->
                FlattenSeq([i \in DOMAIN timetable |-> blocker(tids[t], timetable[i])])])
    IN  IF parsed.default = <<>> THEN <<>>
        ELSE IF daily_blockers = <<>> THEN <<>>
        ELSE <<[type |-> "teacher_max_daily_hours", blockers |-> daily_blockers]>>

\* _slot_overlaps_window for a window that names one day and both times
slot_overlaps_window(slot, window) ==
    /\ lower(slot.day) = lower(window.day)
    /\ times_overlap(parse_time(slot.start_time), parse_time(slot.end_time),
                     parse_time(window.start_time), parse_time(window.end_time))

\* one requested-windows rule of _check_requested_time_windows_and_assignments:
\* the loop over the entries ends (break) after its first entry, and the loop
\* over that entity's sessions ends at the first session no window matches
check_requested_windows(entries, teaching, id_field, rule, blocker_type) ==
    IF entries = <<>> THEN <<>>
    ELSE LET entry == entries[1]
             mine == SelectSeq(teaching, LAMBDA t : t[id_field] = entry[id_field])
             unmatched == SelectSeq(mine, LAMBDA t :
                             ~\E w \in Range(entry.windows) : slot_overlaps_window(t, w))
         IN  IF unmatched = <<>> THEN <<>>
             ELSE <<[type |-> rule,
                     blockers |-> <<[type |-> blocker_type, entity |-> entry[id_field],
                                     day |-> unmatched[1].day,
                                     start_time |-> unmatched[1].start_time,
                                     end_time |-> unmatched[1].end_time]>>]>>

check_requested_time_windows_and_assignments(req, timetable) ==
    LET sc == req.soft_constrains
        teaching == teaching_slots_from_timetable(timetable)
    IN  check_requested_windows(sc.course_requested_time_slots, teaching,
                                "course_id",
                                "course_requested_time_slots",
                                "COURSE_SCHEDULED_OUTSIDE_REQUESTED_SLOTS")
        \o check_requested_windows(sc.teacher_requested_time_windows, teaching,
                                   "teacher_id",
                                   "teacher_requested_time_windows",
                                   "TEACHER_SCHEDULED_OUTSIDE_REQUESTED_WINDOWS")
        \o check_requested_windows(sc.hall_requested_time_windows, teaching,
                                   "hall_id",
                                   "hall_requested_time_windows",
                                   "HALL_SCHEDULED_OUTSIDE_REQUESTED_WINDOWS")

\* an object carries its default and its day exceptions under
\* max_free_periods; the exceptions are keyed by the lowercase day
parse_per_day_limit(field_value) ==
    IF field_value = <<>> THEN [default |-> <<>>, exceptions |-> <<>>]
    ELSE IF field_value[1].kind = "number"
    THEN [default |-> <<field_value[1].value>>, exceptions |-> <<>>]
    ELSE [default |-> field_value[1].default,
          exceptions |-> [i \in DOMAIN field_value[1].exceptions |->
                            [field_value[1].exceptions[i] EXCEPT !.day = lower(@)]]]

\* schedule_max_free_periods_per_day, over self.slots_per_day in day order:
\* the first day over its limit is reported and ends the loop
check_max_free_periods(req, day_list, grid, timetable) ==
    LET sc == req.soft_constrains
        parsed == parse_per_day_limit(either(sc.schedule_max_free_periods_per_day,
                                             sc.time_min_free_periods_per_day))
        slot_days == keys_in_order(day_list)
        teaching_count(day) ==
            SumSeq([i \in DOMAIN timetable |->
                IF lower(timetable[i].day) = lower(day)
                THEN Len(SelectSeq(timetable[i].slots, LAMBDA s : ~s.break))
                ELSE 0])
        free_count(day) == Len(grid[day]) - teaching_count(day)
        limit(day) == lookup(parsed.exceptions, "day", "max_free_periods",
                             lower(day), parsed.default[1])
        over == SelectSeq(slot_days, LAMBDA day : free_count(day) > limit(day))
    IN  IF parsed.default = <<>> \/ slot_days = <<>> THEN <<>>
        ELSE IF over = <<>> THEN <<>>
        ELSE <<[type |-> "schedule_max_free_periods_per_day",
                blockers |-> <<[type |-> "MAX_FREE_PERIODS_EXCEEDED",
                                entity |-> "daily_free_periods", day |-> over[1],
                                current_free_periods |-> free_count(over[1]),
                                max_allowed |-> limit(over[1])]>>]>>

check_soft_constraints(req, day_list, grid, timetable) ==
    check_teacher_max_daily_hours(req, timetable)
        \o check_max_free_periods(req, day_list, grid, timetable)
        \o check_requested_time_windows_and_assignments(req, timetable)

-----------------------------------------------------------------------------
(* Responses *)

build_response(status, timetable, hard_failures, soft_failures) ==
    LET hard_met == Len(hard_failures) = 0
        soft_met == Len(soft_failures) = 0
    IN  [status |-> IF status \notin {"OPTIMAL", "PARTIAL", "ERROR"}
                    THEN (IF ~hard_met THEN "ERROR"
                          ELSE IF ~soft_met THEN "PARTIAL" ELSE "OPTIMAL")
                    ELSE status,
         timetable |-> timetable,
         hard |-> hard_failures,
         soft |-> soft_failures,
         hard_constraints_met |-> hard_met,
         soft_constraints_met |-> soft_met,
         failed_hard_constraints_count |-> Len(hard_failures),
         failed_soft_constraints_count |-> Len(soft_failures)]

\* only the first error is reported
create_infeasible_response_first_error(errors) ==
    LET blockers == IF errors = <<>>
                    THEN <<[type |-> "INFEASIBLE_SCHEDULE", reason |-> "No feasible schedule exists."]>>
                    ELSE <<[type |-> "INFEASIBLE_SCHEDULE", reason |-> errors[1]]>>
        failure == [type |-> "INFEASIBLE_SCHEDULE", blockers |-> blockers]
    IN  build_response("ERROR", <<>>, <<failure>>, <<>>)

create_infeasible_response(errors) ==
    LET blockers == IF errors = <<>>
                    THEN <<[type |-> "INFEASIBLE_SCHEDULE", reason |-> "No feasible schedule exists."]>>
                    ELSE [i \in DOMAIN errors |->
                            [type |-> "INFEASIBLE_SCHEDULE", reason |-> errors[i]]]
        failure == [type |-> "INFEASIBLE_SCHEDULE", blockers |-> blockers]
    IN  build_response("ERROR", <<>>, <<failure>>, <<>>)

\* the error response is built without its hard failure
create_error_response_without_failure(error) ==
    build_response("ERROR", <<>>, <<>>, <<>>)

create_error_response(error) ==
    LET failure == [type |-> "SOLVER_ERROR",
                    blockers |-> <<[type |-> "SOLVER_ERROR", reason |-> error]>>]
    IN  build_response("ERROR", <<>>, <<failure>>, <<>>)

required_failures_response(failures) ==
    build_response("ERROR", <<>>,
        [i \in DOMAIN failures |->
            [type |-> "REQUIRED_JOINT_COURSE_PERIODS",
             blockers |-> <<[type |-> failures[i], reason |-> ""]>>]],
        <<>>)

\* a timeout is answered as an infeasible schedule
extract_solution_timeout_infeasible(req, day_list, grid, status, sol) ==
    IF status \in {"INFEASIBLE", "UNKNOWN"}
    THEN create_infeasible_response(<<"No feasible schedule exists.">>)
    ELSE LET timetable == extract_timetable(req, day_list, grid, sol)
             soft_failures == check_soft_constraints(req, day_list, grid, timetable)
         IN  build_response(IF soft_failures # <<>> THEN "PARTIAL" ELSE "OPTIMAL",
                            timetable, <<>>, soft_failures)

\* the status is not lowered to PARTIAL when the audit reports failures
extract_solution_never_partial(req, day_list, grid, status, sol) ==
    IF status = "INFEASIBLE"
    THEN create_infeasible_response(<<"No feasible schedule exists.">>)
    ELSE IF status = "UNKNOWN"
    THEN create_error_response("Solver timeout")
    ELSE LET timetable == extract_timetable(req, day_list, grid, sol)
             soft_failures == check_soft_constraints(req, day_list, grid, timetable)
         IN  build_response("OPTIMAL", timetable, <<>>, soft_failures)

extract_solution(req, day_list, grid, status, sol) ==
    IF status = "INFEASIBLE"
    THEN create_infeasible_response(<<"No feasible schedule exists.">>)
    ELSE IF status = "UNKNOWN"
    THEN create_error_response("Solver timeout")
    ELSE LET timetable == extract_timetable(req, day_list, grid, sol)
             soft_failures == check_soft_constraints(req, day_list, grid, timetable)
         IN  build_response(IF soft_failures # <<>> THEN "PARTIAL" ELSE "OPTIMAL",
                            timetable, <<>>, soft_failures)

-----------------------------------------------------------------------------
(* Requests *)

Teacher(id) == [teacher_id |-> id]

Course(id, credit, type, tid) ==
    [course_id |-> id, course_credit |-> credit, course_type |-> type, teacher_id |-> tid]

Hall(id, type) == [hall_id |-> id, hall_type |-> type]

TeacherWindow(tid, day, s, e) ==
    [teacher_id |-> tid, day |-> day, start_time |-> s, end_time |-> e]

\* day: <<>> when the busy period names no day
HallWindow(hid, day, s, e) ==
    [hall_id |-> hid, day |-> day, start_time |-> s, end_time |-> e]

DayWindow(day, s, e) == [day |-> day, start_time |-> s, end_time |-> e]

Break(s, e, daily, no_break, day_exc, legacy) ==
    [start_time |-> s, end_time |-> e, daily |-> daily,
     no_break_exceptions |-> no_break, day_exceptions |-> day_exc, constrains |-> legacy]

Operational(s, e, overrides) ==
    [start_time |-> s, end_time |-> e, daily |-> TRUE,
     days |-> <<"monday", "tuesday">>, constrains |-> overrides]

FixedPeriod(day, minutes) == [day |-> day, period |-> minutes]

\* duration_minutes and day_exceptions are the documented names of period and
\* of the per-day overrides; <<>> when the request leaves them out
Periods(minutes, daily, fixed, duration_minutes, day_exceptions) ==
    [period |-> minutes, daily |-> daily,
     constrains |-> IF fixed = <<>> THEN <<>>
                    ELSE <<[daysException |-> <<>>, daysFixedPeriods |-> fixed]>>,
     duration_minutes |-> duration_minutes, day_exceptions |-> day_exceptions]

Pin(cid, tid, day, s, e) ==
    [course_id |-> cid, teacher_id |-> tid, periods |-> <<DayWindow(day, s, e)>>]

\* every soft rule left out (None); the rules the requests never set are not
\* carried: teacher_max_weekly_hours, schedule_max_periods_per_day,
\* course_max_daily_frequency, requested_assignments, requested_free_periods
NoSoftConstraints ==
    [teacher_max_daily_hours |-> <<>>,
     schedule_max_free_periods_per_day |-> <<>>,
     time_min_free_periods_per_day |-> <<>>,
     course_requested_time_slots |-> <<>>,
     teacher_requested_time_windows |-> <<>>,
     hall_requested_time_windows |-> <<>>]

BaseRequest ==
    [teachers |-> <<Teacher("t1"), Teacher("t2")>>,
     teacher_courses |-> <<Course("c1", 1, "theory", "t1")>>,
     halls |-> <<Hall("h1", "lecture")>>,
     teacher_busy_period |-> <<>>,
     teacher_prefered_teaching_period |-> <<>>,
     hall_busy_periods |-> <<>>,
     break_period |-> Break(T(12, 0), T(13, 0), TRUE, <<>>, <<>>, <<>>),
     operational_period |-> Operational(T(8, 0), T(9, 0), <<>>),
     periods |-> <<>>,
     soft_constrains |-> NoSoftConstraints,
     required_joint_course_periods |-> <<>>]

SingleCourseOptions == {<<Course("c1", k, "theory", "t1")>> : k \in 0..MaxCredit}

TwoCourseOptions ==
    {<<Course("c1", k, "theory", "t1"), Course("c2", 1, "practical", "t1")>> : k \in 1..MaxCredit}
    \cup {<<Course("c1", 1, "theory", "t1"), Course("c2", k, "theory", "t2")>> : k \in 1..MaxCredit}

HallOptions ==
    {<<Hall("h1", "lecture")>>,
     <<Hall("h1", "lecture"), Hall("h2", "lab")>>,
     <<Hall("h1", "lecture"), Hall("h2", "lecture")>>,
     <<Hall("h2", "lab")>>}

TeacherBusyOptions ==
    {<<>>,
     <<TeacherWindow("t1", "monday", T(8, 0), T(8, 30))>>,
     <<TeacherWindow("t1", "Monday", T(8, 15), T(8, 45))>>,
     <<TeacherWindow("t1", "monday", T(8, 0), T(9, 0)),
       TeacherWindow("t1", "tuesday", T(7, 0), T(10, 0))>>}

HallBusyOptions ==
    {<<>>,
     <<HallWindow("h1", <<>>, T(8, 0), T(8, 30))>>,
     <<HallWindow("h1", <<"tuesday">>, T(8, 20), T(8, 40))>>}

BreakOptions ==
    {Break(T(8, 30), T(9, 0), daily, no_break, day_exc, legacy) :
        daily \in BOOLEAN,
        no_break \in {<<>>, <<"Monday">>},
        day_exc \in {<<>>, <<DayWindow("tuesday", T(8, 0), T(8, 30))>>,
                     <<DayWindow("monday", T(8, 0), T(8, 20))>>},
        legacy \in {<<>>, <<[daysException |-> <<"tuesday">>,
                            daysFixedBreaks |-> <<DayWindow("monday", T(8, 40), T(8, 50))>>]>>}}
    \cup {Break(T(9, 0), T(8, 30), TRUE, <<>>, <<>>, <<>>),
          Break(T(8, 30), T(9, 0), TRUE, <<"funday">>, <<>>, <<>>)}

PreferenceOptions ==
    {<<>>,
     <<TeacherWindow("t1", "monday", T(8, 0), T(8, 30))>>,
     <<TeacherWindow("t1", "monday", T(8, 0), T(8, 45))>>,
     <<TeacherWindow("t1", "monday", T(8, 10), T(8, 50))>>,
     <<TeacherWindow("t1", "monday", T(8, 30), T(8, 0))>>,
     <<TeacherWindow("t2", "tuesday", T(8, 30), T(9, 0)),
       TeacherWindow("t1", "Monday", T(8, 30), T(9, 0))>>}

OperationalOptions ==
    {Operational(T(8, 0), T(9, 0), <<>>),
     Operational(T(7, 50), T(9, 15), <<>>),
     Operational(T(8, 0), T(9, 0), <<DayWindow("Tuesday", T(8, 0), T(8, 30))>>),
     Operational(T(8, 0), T(9, 0), <<DayWindow("tuesday", T(8, 50), T(9, 0))>>),
     Operational(T(99, 99), T(9, 0), <<>>)}

PinOptions ==
    {<<>>,
     <<Pin("c1", "t1", "monday", T(8, 0), T(8, 30))>>,
     <<Pin("c1", "t2", "monday", T(8, 0), T(8, 30))>>,
     <<Pin("c1", "t1", "Tuesday", T(8, 30), T(9, 0))>>,
     <<Pin("c1", "t1", "monday", T(8, 10), T(8, 40))>>,
     <<Pin("c1", "t1", "wednesday", T(8, 0), T(8, 30))>>,
     <<Pin("c1", "t2", "monday", T(8, 10), T(8, 40))>>,
     <<[course_id |-> "c1", teacher_id |-> "t1",
        periods |-> <<DayWindow("monday", T(8, 30), T(9, 0)),
                      DayWindow("tuesday", T(8, 30), T(9, 0))>>]>>,
     <<Pin("c1", "t1", "monday", T(8, 30), T(9, 0)),
       Pin("c2", "t1", "monday", T(8, 30), T(9, 0))>>,
     <<Pin("c2", "t1", "monday", T(8, 0), T(8, 30)),
       Pin("c1", "t1", "tuesday", T(8, 10), T(8, 40))>>}

SoftOptions ==
    {NoSoftConstraints, [NoSoftConstraints EXCEPT !.teacher_max_daily_hours = <<Scalar(30)>>]}

TeacherException(tid, minutes) == [teacher_id |-> tid, max_hours |-> minutes]

\* limits of 0, 0.25, 0.5 and 1 hour, alone or with a teacher exception
DailyLimitOptions ==
    {<<Scalar(m)>> : m \in {0, 15, 30, 60}}
    \cup {<<LimitObject(<<60>>, <<TeacherException("t1", 30)>>)>>,
          <<LimitObject(<<30>>, <<TeacherException("t2", 60)>>)>>,
          <<LimitObject(<<>>, <<TeacherException("t1", 15)>>)>>}

\* a hall busy period whose time does not parse: alone, behind a period that
\* covers the whole grid, and with a teacher who is busy over the whole grid
ExceptionFamily ==
    {[request |-> [BaseRequest EXCEPT !.teacher_courses = cs,
                       !.hall_busy_periods = hb, !.teacher_busy_period = tb],
      respect |-> r] :
        cs \in SingleCourseOptions, r \in BOOLEAN,
        hb \in {<<HallWindow("h1", <<>>, T(99, 99), T(9, 0))>>,
                <<HallWindow("h1", <<>>, T(8, 0), T(8, 30)),
                  HallWindow("h1", <<>>, T(8, 30), T(99, 99))>>,
                <<HallWindow("h1", <<>>, T(8, 0), T(9, 0)),
                  HallWindow("h1", <<>>, T(99, 99), T(9, 0))>>},
        tb \in {<<>>,
                <<TeacherWindow("t1", "monday", T(8, 0), T(9, 0)),
                  TeacherWindow("t1", "tuesday", T(8, 0), T(9, 0))>>}}

\* hard constraints: courses, halls and busy windows vary
CoreFamily ==
    {[request |-> [BaseRequest EXCEPT !.teacher_courses = cs, !.halls = hs,
                       !.teacher_busy_period = tb, !.hall_busy_periods = hb],
      respect |-> FALSE] :
        cs \in SingleCourseOptions \cup TwoCourseOptions, hs \in HallOptions,
        tb \in TeacherBusyOptions, hb \in HallBusyOptions}

\* break policy varies
BreakFamily ==
    {[request |-> [BaseRequest EXCEPT !.teacher_courses = cs, !.break_period = bp],
      respect |-> FALSE] :
        cs \in SingleCourseOptions, bp \in BreakOptions}

\* preferred windows and the mode vary
PreferenceFamily ==
    {[request |-> [BaseRequest EXCEPT !.teacher_courses = cs, !.halls = hs,
                       !.teacher_prefered_teaching_period = pp],
      respect |-> r] :
        cs \in SingleCourseOptions \cup TwoCourseOptions,
        hs \in {<<Hall("h1", "lecture")>>, <<Hall("h1", "lecture"), Hall("h2", "lab")>>},
        pp \in PreferenceOptions, r \in BOOLEAN}

\* requests that fail validation, and requests whose grid cannot be built
ValidationFamily ==
    {[request |-> [BaseRequest EXCEPT !.teacher_courses = cs, !.halls = hs,
                       !.operational_period = op],
      respect |-> FALSE] :
        cs \in {<<Course("c1", 1, "theory", "t1")>>,
                <<Course("c1", 1, "theory", "t9")>>,
                <<Course("c1", 1, "seminar", "t1")>>},
        hs \in {<<>>, <<Hall("h1", "lecture")>>, <<Hall("h1", "gym")>>},
        op \in OperationalOptions}

\* grids, pins and the audited soft rule vary
PinFamily ==
    {[request |-> [BaseRequest EXCEPT !.teacher_courses = cs,
                       !.operational_period = op, !.hall_busy_periods = hb,
                       !.required_joint_course_periods = pins, !.soft_constrains = sc],
      respect |-> FALSE] :
        cs \in {<<Course("c1", MaxCredit, "theory", "t1")>>,
                <<Course("c1", 1, "theory", "t1"), Course("c2", MaxCredit, "theory", "t1")>>},
        op \in OperationalOptions,
        hb \in {<<>>, <<HallWindow("h1", <<>>, T(8, 0), T(8, 30))>>},
        pins \in PinOptions, sc \in SoftOptions}

\* pins in a request that fails validation
PinErrorFamily ==
    {[request |-> [BaseRequest EXCEPT !.halls = <<Hall("h1", "gym")>>,
                       !.required_joint_course_periods = pins],
      respect |-> FALSE] : pins \in PinOptions}

\* the daily hours limit varies, over 30-minute and 20-minute slots
DailyHoursFamily ==
    {[request |-> [BaseRequest EXCEPT !.teacher_courses = cs, !.periods = ps,
                       !.soft_constrains.teacher_max_daily_hours = limit],
      respect |-> FALSE] :
        cs \in TwoCourseOptions,
        ps \in {<<>>, <<Periods(20, TRUE, <<>>, <<>>, <<>>)>>},
        limit \in DailyLimitOptions}

\* a requested-windows entry; the slots of a course entry are held as windows
RequestedEntry(id_field, id, windows) ==
    [x \in {id_field, "windows"} |-> IF x = "windows" THEN windows ELSE id]

WholeGrid == <<DayWindow("monday", T(8, 0), T(9, 0)), DayWindow("Tuesday", T(8, 0), T(9, 0))>>

\* lists of one or two entries: the windows of an entry cover the whole grid,
\* one cell of it, or no cell of it
RequestedOptions(id_field, first, second) ==
    LET choices == {WholeGrid, <<DayWindow("monday", T(8, 0), T(8, 30))>>,
                    <<DayWindow("monday", T(10, 0), T(11, 0))>>}
    IN  {<<RequestedEntry(id_field, first, w)>> : w \in choices}
        \cup {<<RequestedEntry(id_field, first, w1), RequestedEntry(id_field, second, w2)>> :
                w1 \in choices, w2 \in choices}

\* one of the three requested-windows rules is set
RequestedFamily ==
    LET two == [BaseRequest EXCEPT
                    !.teacher_courses = <<Course("c1", 1, "theory", "t1"),
                                          Course("c2", 1, "theory", "t2")>>,
                    !.halls = <<Hall("h1", "lecture"), Hall("h2", "lecture")>>]
    IN  {[request |-> r, respect |-> FALSE] :
            r \in {[two EXCEPT !.soft_constrains.course_requested_time_slots = e] :
                       e \in RequestedOptions("course_id", "c1", "c2")}
                  \cup {[two EXCEPT !.soft_constrains.teacher_requested_time_windows = e] :
                           e \in RequestedOptions("teacher_id", "t1", "t2")}
                  \cup {[two EXCEPT !.soft_constrains.hall_requested_time_windows = e] :
                           e \in RequestedOptions("hall_id", "h1", "h2")}}

DayException(day, n) == [day |-> day, max_free_periods |-> n]

FreeLimitOptions ==
    {<<Scalar(n)>> : n \in 0..2}
    \cup {<<LimitObject(<<0>>, <<>>)>>,
          <<LimitObject(<<2>>, <<DayException("Tuesday", 0)>>)>>,
          <<LimitObject(<<0>>, <<DayException("monday", 1), DayException("tuesday", 2)>>)>>}

\* the limit on free periods varies, over grids of two and of one slot a day
FreePeriodsFamily ==
    {[request |-> [BaseRequest EXCEPT !.teacher_courses = cs, !.operational_period = op,
                       !.soft_constrains.schedule_max_free_periods_per_day = limit],
      respect |-> FALSE] :
        cs \in SingleCourseOptions \cup TwoCourseOptions,
        op \in {Operational(T(8, 0), T(9, 0), <<>>),
                Operational(T(8, 0), T(9, 0), <<DayWindow("Tuesday", T(8, 0), T(8, 30))>>)},
        limit \in FreeLimitOptions}

\* the courses are listed in descending order of teacher and course id, and
\* two halls let them share a cell; the busy windows leave one cell only
CourseOrderFamily ==
    {[request |-> [BaseRequest EXCEPT
                       !.teacher_courses = <<Course("c2", k, "theory", "t2"),
                                             Course("c1", 1, "theory", "t1")>>,
                       !.halls = <<Hall("h1", "lecture"), Hall("h2", "lecture")>>,
                       !.teacher_busy_period = tb],
      respect |-> FALSE] :
        k \in 1..MaxCredit,
        tb \in {<<>>,
                <<TeacherWindow("t1", "monday", T(8, 30), T(9, 0)),
                  TeacherWindow("t1", "tuesday", T(8, 0), T(9, 0)),
                  TeacherWindow("t2", "monday", T(8, 30), T(9, 0)),
                  TeacherWindow("t2", "tuesday", T(8, 0), T(9, 0))>>}}

\* the requests given to a scheduler that is called more than once: one that
\* can be met, one that cannot (three sessions of one teacher, two cells), one
\* with a shorter tuesday, one that fails validation and one with a pin off
\* the grid
ReuseRequests ==
    {BaseRequest,
     [BaseRequest EXCEPT
         !.teacher_courses = <<Course("c1", 2, "theory", "t1"), Course("c2", 1, "theory", "t1")>>,
         !.hall_busy_periods = <<HallWindow("h1", <<>>, T(8, 0), T(8, 30))>>],
     [BaseRequest EXCEPT
         !.operational_period =
             Operational(T(8, 0), T(9, 0), <<DayWindow("tuesday", T(8, 0), T(8, 30))>>)],
     [BaseRequest EXCEPT !.halls = <<Hall("h1", "gym")>>],
     [BaseRequest EXCEPT
         !.required_joint_course_periods = <<Pin("c1", "t1", "monday", T(8, 10), T(8, 40))>>]}

ReuseFamily == {[request |-> r, respect |-> FALSE] : r \in ReuseRequests}

PeriodOptions ==
    {<<Periods(m, TRUE, <<>>, <<>>, <<>>)>> : m \in {-10, 0, 15, 20, 45}}
    \cup {<<Periods(20, FALSE, <<>>, <<>>, <<>>)>>,
          <<Periods(30, TRUE, <<>>, <<20>>, <<>>)>>,
          <<Periods(30, TRUE, <<>>, <<>>, <<[day |-> "monday", duration_minutes |-> 20]>>)>>,
          <<Periods(60, TRUE, <<FixedPeriod("Monday", 20)>>, <<>>, <<>>)>>,
          <<Periods(20, FALSE, <<FixedPeriod("tuesday", 15), FixedPeriod("tuesday", 60)>>, <<>>, <<>>)>>,
          <<Periods(20, TRUE, <<FixedPeriod("tuesday", 0)>>, <<>>, <<>>)>>,
          <<Periods(20, TRUE, <<FixedPeriod("sunday", 0)>>, <<>>, <<>>)>>,
          <<Periods(20, TRUE, <<FixedPeriod("funday", 20)>>, <<>>, <<>>)>>}

\* the slot duration policy and the operational hours vary
PeriodFamily ==
    {[request |-> [BaseRequest EXCEPT !.teacher_courses = cs, !.periods = ps,
                       !.operational_period = op],
      respect |-> FALSE] :
        cs \in SingleCourseOptions, ps \in PeriodOptions, op \in OperationalOptions}

\* one interval-carrying field holds a window with start >= end
IntervalFamily ==
    {[request |-> [r EXCEPT !.teacher_courses = cs], respect |-> FALSE] :
        cs \in SingleCourseOptions,
        r \in {[BaseRequest EXCEPT !.break_period =
                    Break(T(8, 30), T(9, 0), TRUE, <<>>,
                          <<DayWindow("monday", T(8, 30), T(8, 0))>>, <<>>)],
               [BaseRequest EXCEPT !.break_period =
                    Break(T(8, 30), T(9, 0), TRUE, <<>>, <<>>,
                          <<[daysException |-> <<>>,
                             daysFixedBreaks |-> <<DayWindow("monday", T(8, 30), T(8, 30))>>]>>)],
               [BaseRequest EXCEPT !.teacher_busy_period =
                    <<TeacherWindow("t2", "monday", T(9, 0), T(8, 0))>>],
               [BaseRequest EXCEPT !.hall_busy_periods =
                    <<HallWindow("h1", <<>>, T(9, 0), T(8, 0))>>],
               [BaseRequest EXCEPT !.hall_busy_periods =
                    <<HallWindow("h1", <<"monday">>, T(8, 0), T(8, 0))>>],
               [BaseRequest EXCEPT !.operational_period =
                    Operational(T(9, 0), T(8, 0), <<>>)],
               [BaseRequest EXCEPT !.operational_period =
                    Operational(T(8, 0), T(9, 0), <<DayWindow("tuesday", T(9, 0), T(8, 0))>>)]}}

\* operational hours late in the evening on tuesday
LateWindow(s, e) == Operational(T(8, 0), T(9, 0), <<DayWindow("tuesday", s, e)>>)

\* under the default slot duration, under 45 minutes set for all days, and
\* under a tuesday of two long periods
LateOptions ==
    {<<LateWindow(w[1], w[2]), ps>> :
        w \in {<<T(22, 0), T(23, 30)>>, <<T(22, 0), T(23, 50)>>, <<T(23, 0), T(23, 30)>>,
               <<T(23, 0), T(23, 50)>>, <<T(23, 46), T(23, 50)>>},
        ps \in {<<>>, <<Periods(45, TRUE, <<>>, <<>>, <<>>)>>}}
    \cup {<<LateWindow(T(23, 46), T(23, 50)),
            <<Periods(30, TRUE, <<FixedPeriod("tuesday", 715)>>, <<>>, <<>>)>>>>}

LateFamily ==
    {[request |-> [BaseRequest EXCEPT !.operational_period = o[1], !.periods = o[2]],
      respect |-> FALSE] : o \in LateOptions}

\* two courses of two teachers and one or two lecture halls; the pins name one
\* cell for both courses, a cell each, or one course only
PinHallFamily ==
    {[request |-> [BaseRequest EXCEPT
                       !.teacher_courses = <<Course("c1", 1, "theory", "t1"),
                                             Course("c2", 1, "theory", "t2")>>,
                       !.halls = hs, !.required_joint_course_periods = pins],
      respect |-> FALSE] :
        hs \in {<<Hall("h1", "lecture")>>, <<Hall("h1", "lecture"), Hall("h2", "lecture")>>},
        pins \in {<<Pin("c1", "t1", "monday", T(8, 0), T(8, 30)),
                    Pin("c2", "t2", "monday", T(8, 0), T(8, 30))>>,
                  <<Pin("c1", "t1", "monday", T(8, 0), T(8, 30)),
                    Pin("c2", "t2", "monday", T(8, 30), T(9, 0))>>,
                  <<Pin("c2", "t2", "tuesday", T(8, 0), T(8, 30))>>}}

Scenarios ==
    CoreFamily \cup BreakFamily \cup PreferenceFamily \cup ValidationFamily \cup PinFamily
        \cup IntervalFamily \cup PeriodFamily \cup PinErrorFamily \cup ExceptionFamily
        \cup DailyHoursFamily \cup RequestedFamily \cup FreePeriodsFamily
        \cup CourseOrderFamily \cup ReuseFamily \cup LateFamily
        \cup PinHallFamily

-----------------------------------------------------------------------------
(* solve_scheduling, step by step *)

Init ==
    /\ \E sc \in Scenarios :
        /\ request = sc.request
        /\ respect_preferences = sc.respect
    /\ pc = "start"
    /\ days = <<>>
    /\ slot_times = <<>>
    /\ variables = {}
    /\ pinned = {}
    /\ solver_status = "NONE"
    /\ solution = {}
    /\ response = NoResponse
    /\ model = <<>>
    /\ calls = 1

\* Steps 1-2: _parse_operational_periods, _build_time_slots
BuildTimeSlots ==
    /\ pc = "start"
    /\ ~grid_raises(request)
    /\ ~grid_diverges(request)
    /\ days' = parse_days(request)
    /\ slot_times' = store_time_slots(slot_times, request)
    /\ pc' = "validate"
    /\ UNCHANGED <<request, respect_preferences, variables, pinned,
                   solver_status, solution, response, model, calls>>

\* Steps 1-2 raise; the except branch of solve_scheduling answers
BuildTimeSlotsRaises ==
    /\ pc = "start"
    /\ grid_raises(request)
    /\ response' = create_error_response("ValueError")
    /\ pc' = "done"
    /\ UNCHANGED <<request, respect_preferences, days, slot_times, variables,
                   pinned, solver_status, solution, model, calls>>

\* Step 2 never returns: the run stays inside the while loop of _build_time_slots
BuildTimeSlotsDiverges ==
    /\ pc = "start"
    /\ grid_diverges(request)
    /\ pc' = "build_time_slots"
    /\ UNCHANGED <<request, respect_preferences, days, slot_times, variables,
                   pinned, solver_status, solution, response, model, calls>>

\* Step 3: _validate_input
ValidateInput ==
    /\ pc = "validate"
    /\ LET validation_errors == validate_input(request)
       IN  IF validation_errors # <<>>
           THEN /\ response' = create_infeasible_response(validation_errors)
                /\ pc' = "done"
           ELSE /\ response' = response
                /\ pc' = "variables"
    /\ UNCHANGED <<request, respect_preferences, days, slot_times, variables,
                   pinned, solver_status, solution, model, calls>>

\* Steps 4-5: _create_variables, _add_hard_constraints, _add_required_joint_period_constraints
CreateModel ==
    /\ pc = "variables"
    /\ ~create_variables_raises(request, respect_preferences, slot_times)
    /\ LET V == create_variables(request, respect_preferences, slot_times)
           required == add_required_joint_period_constraints(request, slot_times, V)
       IN  /\ variables' = V
           /\ pinned' = required.pin
           /\ model' = Append(model, ConstraintGroup(request, V, required.pin))
           /\ IF required.failures # <<>>
              THEN /\ response' = required_failures_response(required.failures)
                   /\ pc' = "done"
              ELSE /\ response' = response
                   /\ pc' = "solve"
    /\ UNCHANGED <<request, respect_preferences, days, slot_times,
                   solver_status, solution, calls>>

\* Step 4 raises; the except branch of solve_scheduling answers
CreateModelRaises ==
    /\ pc = "variables"
    /\ create_variables_raises(request, respect_preferences, slot_times)
    /\ response' = create_error_response("ValueError")
    /\ pc' = "done"
    /\ UNCHANGED <<request, respect_preferences, days, slot_times, variables,
                   pinned, solver_status, solution, model, calls>>

\* sol maximizes the objective over the assignments F the model admits
is_optimal(req, respect, grid, F, sol) ==
    \A other \in F :
        objective_value(req, respect, grid, other)
            <= objective_value(req, respect, grid, sol)

\* Steps 6-7: the objective and self.solver.Solve(self.model)
SolveFound ==
    /\ pc = "solve"
    /\ LET F == model_assignments(model)
       IN  \E sol \in F :
            /\ solution' = sol
            /\ solver_status' =
                 IF is_optimal(request, respect_preferences, slot_times, F, sol)
                 THEN "OPTIMAL" ELSE "FEASIBLE"
    /\ pc' = "extract"
    /\ UNCHANGED <<request, respect_preferences, days, slot_times, variables,
                   pinned, response, model, calls>>

SolveInfeasible ==
    /\ pc = "solve"
    /\ model_assignments(model) = {}
    /\ solution' = {}
    /\ solver_status' = "INFEASIBLE"
    /\ pc' = "extract"
    /\ UNCHANGED <<request, respect_preferences, days, slot_times, variables,
                   pinned, response, model, calls>>

\* the wall-clock limit expires before any assignment is found
SolveTimeout ==
    /\ pc = "solve"
    /\ solution' = {}
    /\ solver_status' = "UNKNOWN"
    /\ pc' = "extract"
    /\ UNCHANGED <<request, respect_preferences, days, slot_times, variables,
                   pinned, response, model, calls>>

\* Step 8: _extract_solution, with _check_soft_constraints and _build_response
ExtractSolution ==
    /\ pc = "extract"
    /\ response' = extract_solution(request, days, slot_times, solver_status, solution)
    /\ pc' = "done"
    /\ UNCHANGED <<request, respect_preferences, days, slot_times, variables,
                   pinned, solver_status, solution, model, calls>>

\* solve_scheduling is called again on the same scheduler: the request and
\* the diagnostics are replaced, the solver has not run yet, and self.days,
\* self.slot_times, self.variables and self.model are what the last call left
SolveAgain ==
    /\ pc = "done"
    /\ calls < MaxCalls
    /\ request \in ReuseRequests
    /\ ~respect_preferences
    /\ \E next \in ReuseRequests : request' = next
    /\ calls' = calls + 1
    /\ pc' = "start"
    /\ pinned' = {}
    /\ solver_status' = "NONE"
    /\ solution' = {}
    /\ response' = NoResponse
    /\ UNCHANGED <<respect_preferences, days, slot_times, variables, model>>

Next ==
    \/ BuildTimeSlots
    \/ BuildTimeSlotsRaises
    \/ BuildTimeSlotsDiverges
    \/ ValidateInput
    \/ CreateModel
    \/ CreateModelRaises
    \/ SolveFound
    \/ SolveInfeasible
    \/ SolveTimeout
    \/ ExtractSolution
    \/ SolveAgain

Spec == Init /\ [][Next]_vars

-----------------------------------------------------------------------------
(* What the claims speak about *)

Done == pc = "done"

Answered == Done /\ response.status # "ERROR"

\* the teaching (non-break) slots of the returned timetable, in timetable order
Teaching == teaching_slots_from_timetable(response.timetable)

InMinutes(s) == parse_time(s)

\* [a1, b1) and [a2, b2) share a minute
IntervalsOverlap(a1, b1, a2, b2) == a1 < b2 /\ a2 < b1

SlotOverlaps(slot, window) ==
    IntervalsOverlap(InMinutes(slot.start_time), InMinutes(slot.end_time),
                     InMinutes(window.start_time), InMinutes(window.end_time))

SameDay(a, b) == lower(a) = lower(b)

CourseOf(course_id) ==
    CHOOSE c \in Range(request.teacher_courses) : c.course_id = course_id

HallOf(hall_id) == CHOOSE h \in Range(request.halls) : h.hall_id = hall_id

TypeMatches(course, hall) ==
    \/ course.course_type = "theory" /\ hall.hall_type = "lecture"
    \/ course.course_type = "practical" /\ hall.hall_type = "lab"

-----------------------------------------------------------------------------
(* C1 *)

SessionsOf(course_id) == {i \in DOMAIN Teaching : Teaching[i].course_id = course_id}

\* C1: in every response whose status is not ERROR, each course entry of the
\* request is referenced by exactly max(1, course_credit) non-break slots of
\* the returned timetable.
C1_SessionCount ==
    Answered =>
        \A c \in Range(request.teacher_courses) :
            Cardinality(SessionsOf(c.course_id))
                = (IF c.course_credit >= 1 THEN c.course_credit ELSE 1)

-----------------------------------------------------------------------------
(* C2, C3 *)

SameCell(a, b) ==
    a.day = b.day /\ a.start_time = b.start_time /\ a.end_time = b.end_time

\* C2: in every returned timetable, for every teacher and every (day, start,
\* end) there is at most one teaching slot of that teacher.
C2_TeacherExclusive ==
    Done =>
        \A i \in DOMAIN Teaching : \A j \in DOMAIN Teaching :
            (i # j /\ Teaching[i].teacher_id = Teaching[j].teacher_id)
                => ~SameCell(Teaching[i], Teaching[j])

\* a timetable is returned in which one teacher teaches two courses, and the
\* model held two of that teacher's courses as candidates for one cell
C2_Witness ==
    /\ Answered
    /\ \E i \in DOMAIN Teaching : \E j \in DOMAIN Teaching :
        /\ Teaching[i].teacher_id = Teaching[j].teacher_id
        /\ Teaching[i].course_id # Teaching[j].course_id
    /\ \E v \in variables : \E w \in variables :
        /\ v[1] # w[1] /\ v[2] = w[2] /\ v[3] = w[3]
        /\ request.teacher_courses[v[1]].teacher_id
             = request.teacher_courses[w[1]].teacher_id

\* C3: in every returned timetable, for every hall and every (day, start, end)
\* there is at most one teaching slot in that hall.
C3_HallExclusive ==
    Done =>
        \A i \in DOMAIN Teaching : \A j \in DOMAIN Teaching :
            (i # j /\ Teaching[i].hall_id = Teaching[j].hall_id)
                => ~SameCell(Teaching[i], Teaching[j])

\* a timetable is returned in which two teachers use the same hall, and the
\* model held both their courses as candidates for one cell of that hall
C3_Witness ==
    /\ Answered
    /\ \E i \in DOMAIN Teaching : \E j \in DOMAIN Teaching :
        /\ Teaching[i].hall_id = Teaching[j].hall_id
        /\ Teaching[i].teacher_id # Teaching[j].teacher_id
    /\ \E v \in variables : \E w \in variables :
        /\ v[1] # w[1] /\ v[2] = w[2] /\ v[3] = w[3] /\ v[4] = w[4]
        /\ request.teacher_courses[v[1]].teacher_id
             # request.teacher_courses[w[1]].teacher_id

-----------------------------------------------------------------------------
(* C4 *)

TeacherBusyOn(slot) ==
    {bp \in Range(request.teacher_busy_period) :
        bp.teacher_id = slot.teacher_id /\ SameDay(bp.day, slot.day)}

\* a hall busy window without a day holds on every day
HallBusyOn(slot) ==
    {bp \in Range(request.hall_busy_periods) :
        /\ bp.hall_id = slot.hall_id
        /\ (bp.day = <<>> \/ SameDay(bp.day[1], slot.day))}

\* C4: in every returned timetable, no teaching slot overlaps a busy window of
\* its teacher on that day, and no teaching slot overlaps a busy window of its
\* hall.
C4_BusyWindowsRespected ==
    Done =>
        \A i \in DOMAIN Teaching :
            /\ \A bp \in TeacherBusyOn(Teaching[i]) : ~SlotOverlaps(Teaching[i], bp)
            /\ \A bp \in HallBusyOn(Teaching[i]) : ~SlotOverlaps(Teaching[i], bp)

\* a session is placed on a day on which its teacher has a busy window, and a
\* session is placed in a hall that has a busy window that day
C4_Witness ==
    /\ Answered
    /\ \E i \in DOMAIN Teaching : TeacherBusyOn(Teaching[i]) # {}
    /\ \E i \in DOMAIN Teaching : HallBusyOn(Teaching[i]) # {}

-----------------------------------------------------------------------------
(* C5 *)

\* the top-level list when it is given, else the legacy constrains entry
NoBreakDayList ==
    LET bc == request.break_period
    IN  IF bc.no_break_exceptions # <<>> THEN bc.no_break_exceptions
        ELSE IF bc.constrains # <<>> THEN bc.constrains[1].daysException
        ELSE <<>>

FixedBreakList ==
    LET bc == request.break_period
    IN  IF bc.day_exceptions # <<>> THEN bc.day_exceptions
        ELSE IF bc.constrains # <<>> THEN bc.constrains[1].daysFixedBreaks
        ELSE <<>>

\* <<>> when the day has no break, else <<window>>
EffectiveBreakWindow(day) ==
    LET fixed == SelectSeq(FixedBreakList, LAMBDA w : SameDay(w.day, day))
    IN  IF \E d \in Range(NoBreakDayList) : SameDay(d, day) THEN <<>>
        ELSE IF fixed # <<>> THEN <<fixed[1]>>
        ELSE IF request.break_period.daily = TRUE
        THEN <<[start_time |-> request.break_period.start_time,
                end_time |-> request.break_period.end_time]>>
        ELSE <<>>

-----------------------------------------------------------------------------
(* C6 *)

PreferredOn(slot) ==
    {p \in Range(request.teacher_prefered_teaching_period) :
        p.teacher_id = slot.teacher_id /\ SameDay(p.day, slot.day)}

Within(slot, window) ==
    /\ InMinutes(window.start_time) <= InMinutes(slot.start_time)
    /\ InMinutes(slot.end_time) <= InMinutes(window.end_time)

\* C6: in preference mode, whenever a teacher has at least one preferred
\* window on a day, every session of that teacher on that day lies entirely
\* within one of the teacher's preferred windows for that day.
C6_PreferencesEnforced ==
    (Done /\ respect_preferences) =>
        \A i \in DOMAIN Teaching :
            PreferredOn(Teaching[i]) # {}
                => \E p \in PreferredOn(Teaching[i]) : Within(Teaching[i], p)

\* in preference mode a session is placed on a day on which its teacher has a
\* preferred window that leaves out a cell of that day's grid
C6_Witness ==
    /\ Answered
    /\ respect_preferences
    /\ \E i \in DOMAIN Teaching :
        LET day == lower(Teaching[i].day)
        IN  /\ PreferredOn(Teaching[i]) # {}
            /\ \E k \in DOMAIN slot_times[day] :
                 \A p \in PreferredOn(Teaching[i]) :
                    ~Within([start_time |-> slot_times[day][k][1],
                             end_time |-> slot_times[day][k][2]], p)

-----------------------------------------------------------------------------
(* C8 *)

HasMatchingHall(course) == \E h \in Range(request.halls) : TypeMatches(course, h)

\* C8: a theory course is placed only in lecture halls and a practical course
\* only in labs whenever the request holds a hall of the matching type; only
\* when no matching hall exists may the course be placed in any hall.
C8_TypeMatching ==
    Done =>
        \A i \in DOMAIN Teaching :
            HasMatchingHall(CourseOf(Teaching[i].course_id))
                => TypeMatches(CourseOf(Teaching[i].course_id),
                               HallOf(Teaching[i].hall_id))

\* a course is placed while the request holds both a hall of its type and a
\* hall of the other type
C8_Witness ==
    /\ Answered
    /\ \E i \in DOMAIN Teaching :
        LET course == CourseOf(Teaching[i].course_id)
        IN  /\ HasMatchingHall(course)
            /\ \E h \in Range(request.halls) : ~TypeMatches(course, h)

-----------------------------------------------------------------------------
(* C9, C10 *)

\* C9: on every path, hard_constraints_met is true exactly when the status is
\* not ERROR.
C9_HardMetIffNotError ==
    Done => (response.hard_constraints_met <=> response.status # "ERROR")

\* the solver ran out of time and the error response was built
C9_Witness ==
    /\ Done
    /\ solver_status = "UNKNOWN"
    /\ response.status = "ERROR"
    /\ ~response.hard_constraints_met

\* C10 as stated: on every path, ERROR paths included, soft_constraints_met is
\* true exactly when the status is OPTIMAL.
C10_SoftMetIffOptimal ==
    Done => (response.soft_constraints_met <=> response.status = "OPTIMAL")

\* C10 amended: soft_constraints_met is true exactly when the status is
\* OPTIMAL for every response whose status is not ERROR; on every ERROR path
\* the soft list is empty and soft_constraints_met is true.
C10_SoftMetIffNotPartial ==
    Done =>
        /\ response.status # "ERROR"
            => (response.soft_constraints_met <=> response.status = "OPTIMAL")
        /\ response.status = "ERROR"
            => (response.soft_constraints_met /\ response.soft = <<>>)

\* a timetable is returned whose audit found a teacher over the daily limit
C10_Witness ==
    /\ Done
    /\ response.status = "PARTIAL"
    /\ ~response.soft_constraints_met
    /\ response.hard_constraints_met

-----------------------------------------------------------------------------
(* C7 *)

\* Steps 1-5 of solve_scheduling for one request: either the response
\* returned before the solver is called, or the CP model handed to the solver
prepare_model(req, respect) ==
    IF grid_raises(req)
    THEN [returned |-> TRUE, response |-> create_error_response("ValueError"),
          grid |-> <<>>, variables |-> {}, pin |-> {}]
    ELSE LET grid == build_time_slots(req)
             validation_errors == validate_input(req)
             V == create_variables(req, respect, grid)
             required == add_required_joint_period_constraints(req, grid, V)
         IN  IF validation_errors # <<>>
             THEN [returned |-> TRUE,
                   response |-> create_infeasible_response(validation_errors),
                   grid |-> grid, variables |-> {}, pin |-> {}]
             ELSE IF create_variables_raises(req, respect, grid)
             THEN [returned |-> TRUE, response |-> create_error_response("ValueError"),
                   grid |-> grid, variables |-> {}, pin |-> {}]
             ELSE IF required.failures # <<>>
             THEN [returned |-> TRUE,
                   response |-> required_failures_response(required.failures),
                   grid |-> grid, variables |-> V, pin |-> required.pin]
             ELSE [returned |-> FALSE, response |-> NoResponse,
                   grid |-> grid, variables |-> V, pin |-> required.pin]

WithPreferences(prefs) ==
    [request EXCEPT !.teacher_prefered_teaching_period = prefs]

\* The request that differs only in its preferred windows is answered as this
\* one was: the same response before the solver, or else the same CP model
\* (variables, pins, objective), on which the solver, a deterministic function
\* of the model, makes the same choice, and the same response built from it.
TwinAgrees(prefs) ==
    LET twin == WithPreferences(prefs)
        other == prepare_model(twin, respect_preferences)
    IN  IF other.returned
        THEN solver_status = "NONE" /\ response = other.response
        ELSE /\ solver_status # "NONE"
             /\ other.variables = variables
             /\ other.pin = pinned
             /\ \A sol \in feasible_assignments(twin, other.variables, other.pin) :
                    objective_value(twin, respect_preferences, other.grid, sol)
                        = objective_value(request, respect_preferences, slot_times, sol)
             /\ response = extract_solution(twin, parse_days(twin), other.grid,
                                            solver_status, solution)

PreferencesValid(req) == validate_teacher_preferred_periods(req) = <<>>

-----------------------------------------------------------------------------
(* C11 *)

\* validation ran and found errors
ValidationFailed == ~grid_raises(request) /\ validate_input(request) # <<>>

ValidationErrors == validate_input(request)

\* the solver was never called: no outcome, no model built
SolverNotInvoked == solver_status = "NONE" /\ solution = {}

\* every validation error is the reason of some blocker of some hard diagnostic
EveryErrorReported ==
    \A i \in DOMAIN ValidationErrors :
        \E f \in DOMAIN response.hard :
            \E b \in DOMAIN response.hard[f].blockers :
                response.hard[f].blockers[b].reason = ValidationErrors[i]

-----------------------------------------------------------------------------
(* C12 *)

\* start >= end, for a window whose two times parse
Inverted(window) ==
    /\ ~is_malformed(window.start_time) /\ ~is_malformed(window.end_time)
    /\ InMinutes(window.start_time) >= InMinutes(window.end_time)

SomeInverted(windows) == \E w \in Range(windows) : Inverted(w)

LegacyFixedBreaks(req) ==
    IF req.break_period.constrains = <<>> THEN <<>>
    ELSE req.break_period.constrains[1].daysFixedBreaks

InvertedBreak(req) ==
    \/ Inverted(req.break_period)
    \/ SomeInverted(req.break_period.day_exceptions)
    \/ SomeInverted(LegacyFixedBreaks(req))

InvertedOperational(req) ==
    \/ Inverted(req.operational_period)
    \/ SomeInverted(req.operational_period.constrains)

HasInvertedInterval(req) ==
    \/ InvertedBreak(req)
    \/ SomeInverted(req.teacher_busy_period)
    \/ SomeInverted(req.teacher_prefered_teaching_period)
    \/ SomeInverted(req.hall_busy_periods)
    \/ InvertedOperational(req)

\* C12: every request that holds a time interval with start >= end, in any
\* interval-carrying field (break policy and its per-day overrides, teacher
\* busy windows, teacher preferred windows, hall busy windows, operational
\* period and its per-day overrides), is answered ERROR with no timetable.
C12_InvertedIntervalRejected ==
    (Done /\ HasInvertedInterval(request)) =>
        (response.status = "ERROR" /\ response.timetable = <<>>)

-----------------------------------------------------------------------------
(* C13 *)

\* the periods configuration holds a default or per-day duration <= 0
NonPositiveDuration(req) ==
    /\ req.periods # <<>>
    /\ \/ req.periods[1].period <= 0
       \/ /\ req.periods[1].constrains # <<>>
          /\ \E fp \in Range(req.periods[1].constrains[1].daysFixedPeriods) :
                fp.period <= 0

\* C13: a request whose periods configuration gives a default or per-day slot
\* duration that is not greater than 0 ends with a response of status ERROR
\* carrying a hard diagnostic, and no solve is attempted: the run never stays
\* inside a step, and never reaches the solver.
C13_NonPositiveDurationRejected ==
    NonPositiveDuration(request) =>
        /\ pc \in {"start", "validate", "done"}
        /\ Done => /\ response.status = "ERROR"
                   /\ response.hard # <<>>
                   /\ SolverNotInvoked

-----------------------------------------------------------------------------
(* C14 *)

\* the (item, period) pairs of the request's required joint periods
RequiredPeriods ==
    UNION {{<<k, j>> : j \in DOMAIN request.required_joint_course_periods[k].periods} :
              k \in DOMAIN request.required_joint_course_periods}

PinItem(p) == request.required_joint_course_periods[p[1]]

PinPeriod(p) == request.required_joint_course_periods[p[1]].periods[p[2]]

\* the timetable holds the locked placement p
Placed(p) ==
    \E i \in DOMAIN Teaching :
        /\ Teaching[i].course_id = PinItem(p).course_id
        /\ Teaching[i].teacher_id = PinItem(p).teacher_id
        /\ SameDay(Teaching[i].day, PinPeriod(p).day)
        /\ Teaching[i].start_time = PinPeriod(p).start_time
        /\ Teaching[i].end_time = PinPeriod(p).end_time

\* C14: in every response whose status is not ERROR, for every required joint
\* period (course_id, teacher_id, day, start, end) of the request the
\* timetable holds, on that day, a teaching slot with that course_id and
\* teacher_id and exactly that start_time and end_time.
C14_RequiredPeriodsPlaced ==
    Answered => \A p \in RequiredPeriods : Placed(p)

\* a timetable is returned for a request with a locked placement, and the
\* locked course had another cell it could have gone to
C14_Witness ==
    /\ Answered
    /\ RequiredPeriods # {}
    /\ pinned # {}
    /\ \E v \in pinned : \E w \in variables :
        /\ w[1] = v[1] /\ w \notin solution
        /\ Cardinality(course_variables(variables, v[1]))
             > calculate_sessions_per_week(request.teacher_courses[v[1]])

-----------------------------------------------------------------------------
(* C15 *)

\* the course entries a locked item names
PinCourses(item) ==
    {ci \in DOMAIN request.teacher_courses :
        /\ request.teacher_courses[ci].course_id = item.course_id
        /\ request.teacher_courses[ci].teacher_id = item.teacher_id}

PairMismatch(item) == PinCourses(item) = {}

\* the cells of the enumerated grid that are exactly the locked period
PinCells(period) ==
    IF lower(period.day) \notin DOMAIN slot_times THEN {}
    ELSE {k \in DOMAIN slot_times[lower(period.day)] :
            slot_times[lower(period.day)][k]
                = <<period.start_time, period.end_time>>}

CellMissing(period) == PinCells(period) = {}

\* the cell exists but no hall survives the pre-filter there for the course
NoAdmissibleHall(item, period) ==
    /\ ~PairMismatch(item)
    /\ ~CellMissing(period)
    /\ LET ci == CHOOSE i \in PinCourses(item) : \A j \in PinCourses(item) : i <= j
       IN  \A k \in PinCells(period) :
            ~\E v \in variables :
                v[1] = ci /\ v[2] = lower(period.day) /\ v[3] = k

\* some hard diagnostic carries a blocker of this type
Reported(type) ==
    \E f \in DOMAIN response.hard :
        \E b \in DOMAIN response.hard[f].blockers :
            response.hard[f].blockers[b].type = type

PinRejected(type) ==
    /\ response.status = "ERROR"
    /\ response.timetable = <<>>
    /\ Reported(type)
    /\ SolverNotInvoked

PinsExamined == ~grid_raises(request) /\ validate_input(request) = <<>>

-----------------------------------------------------------------------------
(* C16 *)

\* an exception was raised inside solve_scheduling
Raised ==
    \/ grid_raises(request)
    \/ /\ PinsExamined
       /\ create_variables_raises(request, respect_preferences, slot_times)

\* the hard diagnostics are exactly one, of this type, with blockers of this type
OnlyDiagnostic(type) ==
    /\ Len(response.hard) = 1
    /\ response.hard[1].type = type
    /\ \A b \in DOMAIN response.hard[1].blockers :
        response.hard[1].blockers[b].type = type

ErrorWith(type) ==
    /\ response.status = "ERROR"
    /\ response.timetable = <<>>
    /\ OnlyDiagnostic(type)

-----------------------------------------------------------------------------
(* C17 *)

\* every slot of the returned timetable, teaching or break, in timetable order
Rendered == FlattenSeq([i \in DOMAIN response.timetable |-> response.timetable[i].slots])

\* the minute component of an "HH:MM" time
Minute(s) == InMinutes(s) % 60

OnQuarterHour(s) == Minute(s) \in {0, QuarterHour, 2 * QuarterHour, 3 * QuarterHour}

\* C17: every teaching slot and every break slot rendered in the timetable has
\* a start_time whose minute component is 00, 15, 30 or 45, for every
\* operational start time and every positive slot duration.
C17_QuarterHourAlignment ==
    Done => \A i \in DOMAIN Rendered : OnQuarterHour(Rendered[i].start_time)

-----------------------------------------------------------------------------
(* C18 *)

\* the days the returned timetable renders
RenderedDays == {response.timetable[i].day : i \in DOMAIN response.timetable}

\* the active day holds a session in the assignment the solver returned
HasSession(day) == \E v \in solution : v[2] = day

\* C18: every day that appears in the returned timetable holds at least one
\* teaching (non-break) slot; an active day with no teaching slot is omitted
\* together with its break slot.
C18_DayFiltering ==
    Done =>
        /\ \A i \in DOMAIN response.timetable :
            \E j \in DOMAIN response.timetable[i].slots :
                ~response.timetable[i].slots[j].break
        /\ \A i \in DOMAIN days :
            ~HasSession(days[i]) =>
                /\ capitalize(days[i]) \notin RenderedDays
                /\ \A k \in DOMAIN Rendered : ~SameDay(Rendered[k].day, days[i])

\* a timetable is returned that leaves out an active day which has a break
\* window and no session
C18_Witness ==
    /\ Answered
    /\ response.timetable # <<>>
    /\ \E i \in DOMAIN days :
        /\ ~HasSession(days[i])
        /\ get_break_slots(request, days[i]) # <<>>
        /\ capitalize(days[i]) \notin RenderedDays

-----------------------------------------------------------------------------
(* C19 *)

\* the break slots of one rendered day, as (start_time, end_time) pairs
BreakSlotsOf(rendered_day) ==
    LET breaks == SelectSeq(rendered_day.slots, LAMBDA sl : sl.break)
    IN  [k \in DOMAIN breaks |-> <<breaks[k].start_time, breaks[k].end_time>>]

\* no cell of the day that overlaps the window was left to the solver
CellsEliminated(day, window) ==
    \A v \in variables :
        v[2] = lower(day) =>
            ~IntervalsOverlap(InMinutes(slot_times[v[2]][v[3]][1]),
                              InMinutes(slot_times[v[2]][v[3]][2]),
                              InMinutes(window[1]), InMinutes(window[2]))

-----------------------------------------------------------------------------
(* C20 *)

\* the per-day overrides of the periods configuration, under either name:
\* constrains.daysFixedPeriods {day, period} and day_exceptions {day, duration_minutes}
DurationOverrides(cfg, day) ==
    (IF cfg.constrains = <<>> THEN <<>>
     ELSE LET fixed == SelectSeq(cfg.constrains[1].daysFixedPeriods,
                                 LAMBDA fp : SameDay(fp.day, day))
          IN  [k \in DOMAIN fixed |-> fixed[k].period])
    \o (LET named == SelectSeq(cfg.day_exceptions, LAMBDA ex : SameDay(ex.day, day))
        IN  [k \in DOMAIN named |-> named[k].duration_minutes])

\* the configured default duration, under either name: duration_minutes, period
ConfiguredDefault(cfg) ==
    IF cfg.duration_minutes # <<>> THEN cfg.duration_minutes[1] ELSE cfg.period

\* the duration the periods configuration gives an active day
ConfiguredDuration(day) ==
    IF request.periods = <<>> THEN DefaultPeriod
    ELSE LET cfg == request.periods[1]
         IN  IF DurationOverrides(cfg, day) # <<>> THEN DurationOverrides(cfg, day)[1]
             ELSE ConfiguredDefault(cfg)

\* C20: each active day's slot duration is the per-day override configured
\* for that day if there is one, otherwise the configured default duration of
\* the periods configuration, and 30 minutes only when no duration is
\* configured; every teaching slot of that day has exactly that duration.
C20_ConfiguredSlotDuration ==
    Answered =>
        /\ \A d \in DOMAIN slot_times : \A k \in DOMAIN slot_times[d] :
            slot_duration(slot_times[d][k][1], slot_times[d][k][2])
                = ConfiguredDuration(d)
        /\ \A i \in DOMAIN Teaching :
            slot_duration(Teaching[i].start_time, Teaching[i].end_time)
                = ConfiguredDuration(Teaching[i].day)

-----------------------------------------------------------------------------
(* C21 *)

\* the decision variables exist: _create_variables has returned
ModelBuilt == pc \in {"solve", "extract"}

\* a busy window of the hall that holds on the day overlaps the cell
HallBlocked(hall, day, slot) ==
    \E bp \in Range(request.hall_busy_periods) :
        /\ bp.hall_id = hall.hall_id
        /\ (bp.day = <<>> \/ SameDay(bp.day[1], day))
        /\ SlotOverlaps([start_time |-> slot_times[day][slot][1],
                         end_time |-> slot_times[day][slot][2]], bp)

\* nothing but the hall's busy windows stands between the cell and the model
OtherwiseAdmissible(ci, day, slot) ==
    LET course == request.teacher_courses[ci]
        slot_start == parse_time(slot_times[day][slot][1])
        slot_end == parse_time(slot_times[day][slot][2])
    IN  /\ ~teacher_is_busy(request, course, day, slot_start, slot_end)
        /\ ~is_slot_in_break_period(request, day, slot_start, slot_end)
        /\ (respect_preferences =>
              is_slot_in_teacher_preference(request, course, day, slot_start, slot_end))

\* C21: a hall busy window that names a day removes cells of that hall only
\* on that day, and a hall busy window without a day removes the overlapping
\* cells of that hall on every active day: a cell that is otherwise
\* admissible is a decision variable exactly when no busy window of its hall
\* that holds on its day overlaps it.
C21_HallBusyDayScoped ==
    ModelBuilt =>
        \A ci \in DOMAIN request.teacher_courses : \A d \in DOMAIN slot_times :
            \A k \in DOMAIN slot_times[d] :
                \A h \in Range(get_suitable_halls(request, request.teacher_courses[ci])) :
                    OtherwiseAdmissible(ci, d, k) =>
                        (<<ci, d, k, h.hall_id>> \in variables <=> ~HallBlocked(h, d, k))

-----------------------------------------------------------------------------
(* C22 *)

SoftBlockers == FlattenSeq([i \in DOMAIN response.soft |-> response.soft[i].blockers])

\* the TEACHER_MAX_DAILY_HOURS_EXCEEDED blockers of a teacher on a day
DailyHoursBlockers(tid, day) ==
    {b \in Range(SoftBlockers) :
        /\ b.type = "TEACHER_MAX_DAILY_HOURS_EXCEEDED"
        /\ b.entity = tid /\ SameDay(b.day, day)}

\* the teacher's limit, in minutes: the exception if listed, otherwise the
\* default; <<>> when the field gives the teacher neither
DailyLimit(tid) ==
    LET value == request.soft_constrains.teacher_max_daily_hours[1]
        listed == SelectSeq(value.exceptions, LAMBDA ex : ex.teacher_id = tid)
    IN  IF value.kind = "number" THEN <<value.value>>
        ELSE IF listed # <<>> THEN <<listed[1].max_hours>>
        ELSE value.default

\* the total duration, in minutes, of the teacher's sessions on the day
DailyTotal(tid, day) ==
    LET sessions == SelectSeq(Teaching, LAMBDA s : s.teacher_id = tid /\ SameDay(s.day, day))
    IN  SumSeq([i \in DOMAIN sessions |->
            InMinutes(sessions[i].end_time) - InMinutes(sessions[i].start_time)])

DailyLimitExceeded(tid, day) ==
    DailyLimit(tid) # <<>> /\ DailyTotal(tid, day) > DailyLimit(tid)[1]

\* a quantity reported in hundredths of an hour is this many minutes
HoursAre(hundredths, minutes) == hundredths * 60 = minutes * 100

\* C22: when teacher_max_daily_hours is configured, the soft diagnostics hold
\* a TEACHER_MAX_DAILY_HOURS_EXCEEDED blocker for a (teacher, day) exactly
\* when the total duration of that teacher's sessions on that day exceeds the
\* teacher's limit (the teacher's exception if listed, otherwise the
\* default); the blocker reports max_allowed_hours = that limit, actual_hours
\* = the total and excess = their difference, and the status is then PARTIAL.
C22_DailyHoursAudit ==
    (Answered /\ request.soft_constrains.teacher_max_daily_hours # <<>>) =>
        \A t \in Range(request.teachers) : \A d \in Range(days) :
            /\ DailyHoursBlockers(t.teacher_id, d) # {}
                 <=> DailyLimitExceeded(t.teacher_id, d)
            /\ \A b \in DailyHoursBlockers(t.teacher_id, d) :
                /\ DailyLimit(t.teacher_id) = <<b.max_allowed_hours>>
                /\ HoursAre(b.actual_hours, DailyTotal(t.teacher_id, d))
                /\ HoursAre(b.excess, DailyTotal(t.teacher_id, d) - b.max_allowed_hours)
            /\ DailyLimitExceeded(t.teacher_id, d) => response.status = "PARTIAL"

-----------------------------------------------------------------------------
(* C23 *)

\* the session lies outside every window of the entry
OutsideAll(session, windows) ==
    \A w \in Range(windows) : ~(SameDay(session.day, w.day) /\ SlotOverlaps(session, w))

\* a soft diagnostic of the rule names the entity
SoftDiagnosticFor(rule, id) ==
    \E i \in DOMAIN response.soft :
        /\ response.soft[i].type = rule
        /\ \E b \in Range(response.soft[i].blockers) : b.entity = id

\* every entry of one requested-windows list whose entity has a session
\* outside all its windows is answered with a diagnostic and PARTIAL
RequestedWindowsAudited(entries, id_of(_), session_id(_), rule) ==
    \A k \in DOMAIN entries :
        (\E s \in Range(Teaching) :
            /\ session_id(s) = id_of(entries[k])
            /\ OutsideAll(s, entries[k].windows))
        => (SoftDiagnosticFor(rule, id_of(entries[k])) /\ response.status = "PARTIAL")

\* C23: for every entry, at any position, of course_requested_time_slots,
\* teacher_requested_time_windows and hall_requested_time_windows: if some
\* session of the entry's course, teacher or hall in the timetable falls
\* outside all of that entry's requested windows, a soft diagnostic for that
\* entity is emitted and the status is PARTIAL.
C23_RequestedWindowsAudit ==
    Answered =>
        LET sc == request.soft_constrains
        IN  /\ RequestedWindowsAudited(sc.course_requested_time_slots,
                    LAMBDA e : e.course_id, LAMBDA s : s.course_id,
                    "course_requested_time_slots")
            /\ RequestedWindowsAudited(sc.teacher_requested_time_windows,
                    LAMBDA e : e.teacher_id, LAMBDA s : s.teacher_id,
                    "teacher_requested_time_windows")
            /\ RequestedWindowsAudited(sc.hall_requested_time_windows,
                    LAMBDA e : e.hall_id, LAMBDA s : s.hall_id,
                    "hall_requested_time_windows")

-----------------------------------------------------------------------------
(* C24 *)

FreePeriodsField == request.soft_constrains.schedule_max_free_periods_per_day

\* configured with a limit: a scalar, or a default with per-day exceptions
FreePeriodsConfigured ==
    /\ FreePeriodsField # <<>>
    /\ (FreePeriodsField[1].kind = "object" => FreePeriodsField[1].default # <<>>)

\* the day's limit: its exception if it has one, otherwise the scalar or default
FreePeriodsLimit(day) ==
    LET value == FreePeriodsField[1]
        listed == SelectSeq(value.exceptions, LAMBDA ex : SameDay(ex.day, day))
    IN  IF value.kind = "number" THEN value.value
        ELSE IF listed # <<>> THEN listed[1].max_free_periods
        ELSE value.default[1]

\* grid slots of the day minus teaching slots on the day
FreePeriods(day) ==
    Len(slot_times[day])
        - Len(SelectSeq(Teaching, LAMBDA s : SameDay(s.day, day)))

SomeDayOverFreeLimit ==
    \E d \in Range(days) : FreePeriods(d) > FreePeriodsLimit(d)

FreePeriodsDiagnostic ==
    \E b \in Range(SoftBlockers) : b.type = "MAX_FREE_PERIODS_EXCEEDED"

\* C24: when schedule_max_free_periods_per_day is configured with a limit
\* L >= 0 (scalar, or default with per-day exceptions), a
\* MAX_FREE_PERIODS_EXCEEDED soft diagnostic is emitted and the status is
\* PARTIAL exactly when some active day has (number of grid slots of the day
\* minus number of teaching slots on the day) greater than that day's limit.
C24_FreePeriodsAudit ==
    (Answered /\ FreePeriodsConfigured) =>
        /\ FreePeriodsDiagnostic <=> SomeDayOverFreeLimit
        /\ SomeDayOverFreeLimit => response.status = "PARTIAL"

-----------------------------------------------------------------------------
(* C25 *)

\* the place of an id among the ids of the requests, in string order
IdRank(id) ==
    CASE id = "" -> 0
      [] id \in {"c1", "t1"} -> 1
      [] id \in {"c2", "t2"} -> 2
      [] OTHER -> 3

\* (teacher_id, course_id) of a comes no later than that of b
PairOrdered(a, b) ==
    \/ IdRank(a.teacher_id) < IdRank(b.teacher_id)
    \/ /\ IdRank(a.teacher_id) = IdRank(b.teacher_id)
       /\ IdRank(a.course_id) <= IdRank(b.course_id)

\* C25: within each day of the returned timetable the slots are ordered by
\* start time, and slots with equal start time are ordered by
\* (teacher_id, course_id).
C25_SlotOrder ==
    Done =>
        \A d \in DOMAIN response.timetable :
            LET slots == response.timetable[d].slots
            IN  \A i \in DOMAIN slots : \A j \in DOMAIN slots :
                    i < j =>
                        /\ InMinutes(slots[i].start_time) <= InMinutes(slots[j].start_time)
                        /\ slots[i].start_time = slots[j].start_time
                             => PairOrdered(slots[i], slots[j])

-----------------------------------------------------------------------------
(* C26 *)

\* the responses a scheduler that has made no call yet may give the request
FreshResponses(req, respect) ==
    LET prepared == prepare_model(req, respect)
        F == feasible_assignments(req, prepared.variables, prepared.pin)
        answer(status, sol) ==
            extract_solution(req, parse_days(req), prepared.grid, status, sol)
    IN  IF prepared.returned THEN {prepared.response}
        ELSE {answer("UNKNOWN", {})}
             \cup (IF F = {} THEN {answer("INFEASIBLE", {})}
                   ELSE {answer(status, sol) : status \in {"OPTIMAL", "FEASIBLE"}, sol \in F})

\* C26: solver state is scoped to one invocation: a later call of
\* solve_scheduling on the same scheduler returns, for its request, a
\* response a fresh scheduler would return; no variable, constraint, grid
\* cell, error or diagnostic of an earlier solve carries over.
C26_CallsAreIndependent ==
    (Done /\ calls > 1) =>
        /\ response \in FreshResponses(request, respect_preferences)
        /\ slot_times = build_time_slots(request)


(* C27 *)

\* the response of a solve of req on a scheduler that has made no call yet,
\* in which the solver ends with this status and this assignment
OutcomeResponse(req, respect, status, sol) ==
    LET prepared == prepare_model(req, respect)
    IN  IF prepared.returned THEN prepared.response
        ELSE extract_solution(req, parse_days(req), prepared.grid, status, sol)

\* the hard constraints leave the solver at most one assignment to return
SolverHasNoChoice(req, respect) ==
    LET prepared == prepare_model(req, respect)
    IN  \/ prepared.returned
        \/ Cardinality(feasible_assignments(req, prepared.variables, prepared.pin)) <= 1

TimeSlotsBuilt == pc \in {"validate", "variables", "solve", "extract"}

DayEnd(day) == parse_time(operational_hours(request, day)[2])

\* the start of the day's window rounded up to the next multiple of 15
\* minutes, in minutes since 00:00
RoundedUpStart(day) ==
    LET start == parse_time(operational_hours(request, day)[1])
    IN  ((start + QuarterHour - 1) \div QuarterHour) * QuarterHour

\* the slots [a + k*d, a + (k+1)*d) for k = 0, 1, ... with a + (k+1)*d <= end_time
StatedGrid(a, end_time, d) ==
    LET n == IF a + d > end_time THEN 0 ELSE (end_time - a) \div d
    IN  [k \in 1..n |-> <<time_to_str(a + (k - 1) * d), time_to_str(a + k * d)>>]

HasStatedGrid(day) ==
    slot_times[day] =
        StatedGrid(RoundedUpStart(day), DayEnd(day), get_period_duration(request, day))

\* C28: for every active day with operational window [start, end] and slot
\* duration d > 0, the day's grid is exactly the sequence of slots
\* [a + k*d, a + (k+1)*d) with a + (k+1)*d <= end, where a is start rounded up
\* to the next multiple of 15 minutes; a trailing partial slot is discarded.
C28_GridShape ==
    TimeSlotsBuilt =>
        \A day \in Range(days) :
            get_period_duration(request, day) > 0 => HasStatedGrid(day)


(* C29 *)

\* each active day has an operational window with 00:00 <= start < end <= 23:59
\* and a slot duration greater than 0
WindowsInRange(req) ==
    \A day \in Range(parse_days(req)) :
        /\ ~day_raises(req, day)
        /\ parse_time(operational_hours(req, day)[1]) < parse_time(operational_hours(req, day)[2])
        /\ get_period_duration(req, day) > 0

\* the run is inside the slot-enumeration loop and will not leave it
GridLoopRunsForever == pc = "build_time_slots"

\* C29: time-grid building terminates for every request in which each active
\* day has an operational window with 00:00 <= start < end <= 23:59 and a slot
\* duration greater than 0: no run on such a request stays in the
\* slot-enumeration loop of a day for ever.
C29_GridBuildingTerminates ==
    WindowsInRange(request) => ~GridLoopRunsForever


(* C30 *)

\* the request passed validation and its variables were created
PinStepReached ==
    /\ ~grid_raises(request)
    /\ validate_input(request) = <<>>
    /\ ~create_variables_raises(request, respect_preferences, slot_times)

\* the teacher_courses entry a required joint item names; {} when none does
PinnedCourse(item) ==
    LET hit == {ci \in DOMAIN request.teacher_courses :
                    /\ request.teacher_courses[ci].course_id = item.course_id
                    /\ request.teacher_courses[ci].teacher_id = item.teacher_id}
    IN  IF hit = {} THEN {} ELSE {CHOOSE i \in hit : \A j \in hit : i <= j}

PinnedSlot(period) ==
    find_slot_index(slot_times, lower(period.day), period.start_time, period.end_time)

\* every required joint period names a course of the request and a cell of the grid
AllPinsLocated ==
    \A item \in Range(request.required_joint_course_periods) :
        /\ PinnedCourse(item) # {}
        /\ \A period \in Range(item.periods) : PinnedSlot(period) # <<>>

\* <<course index, day, slot>> of every required joint period
PinnedCells ==
    UNION {{<<ci, lower(period.day), PinnedSlot(period)[1]>> :
                ci \in PinnedCourse(item), period \in Range(item.periods)} :
            item \in Range(request.required_joint_course_periods)}

\* no teacher holds two sessions in one cell
TeachersExclusive(sol) ==
    \A v \in sol, w \in sol :
        (v # w /\ v[2] = w[2] /\ v[3] = w[3]) =>
            request.teacher_courses[v[1]].teacher_id # request.teacher_courses[w[1]].teacher_id

\* an assignment over the pre-filtered cells meets the session counts, teacher
\* and hall exclusivity, and holds every pinned course in its pinned cell, in
\* some admissible hall
SatisfiableWithPins ==
    /\ AllPinsLocated
    /\ \E sol \in feasible_assignments(request, variables, {}) :
        /\ TeachersExclusive(sol)
        /\ \A cell \in PinnedCells :
            \E v \in sol : v[1] = cell[1] /\ v[2] = cell[2] /\ v[3] = cell[3]

\* C30: pinning never turns a satisfiable request into an ERROR: if an
\* assignment over the pre-filtered cells meets session count, teacher
\* exclusivity and hall exclusivity and holds every required joint period's
\* course in its pinned cell in some admissible hall, then, the solver
\* completing, the response status is not ERROR, whichever hall the pin step
\* selects.
C30_PinningKeepsSatisfiable ==
    (Done /\ calls = 1 /\ PinStepReached /\ request.required_joint_course_periods # <<>>
        /\ SatisfiableWithPins /\ solver_status # "UNKNOWN") =>
        response.status # "ERROR"

====
